---- MODULE Spec2Model ----
(***************************************************************************)
(* A model of jjyr/hdwallet: BIP-32 key derivation (src/src/key.rs and its *)
(* successor src/src/extended_key.rs), key indices, chain paths, the key   *)
(* chain and the hdwallet-bitcoin serialization codec.                     *)
(*                                                                         *)
(* Byte strings keep their real lengths and offsets (32-byte scalars and   *)
(* chain codes, 33-byte compressed points, 82-byte wire records).  The     *)
(* value spaces of the external primitives are scaled down: secp256k1 is a *)
(* cyclic group of prime order CurveOrder (the subgroup generated by       *)
(* Generator in the multiplicative group modulo FieldPrime), HMAC-SHA512   *)
(* and SHA-256 are deterministic mixing functions with a small range, and  *)
(* the u32 key index is IndexBits wide.                                    *)
(***************************************************************************)
EXTENDS Integers, Sequences, FiniteSets, TLC

(***************************************************************************)
(* Bounds                                                                  *)
(***************************************************************************)
\* width of the key index in bits (u32 in the source, scaled)
IndexBits == 3

\* longest seed handed to with_seed
MaxSeedLen == 2

\* longest path text, in characters, of the parser's inputs
MaxPathLen == 4

\* most segments in a path given to the key chain
MaxSegments == 3

\* further fetch_key calls made on one key chain
MaxCalls == 2

(***************************************************************************)
(* Results and options                                                     *)
(***************************************************************************)
Ok(v) == [tag |-> "Ok", val |-> v]

Err(e) == [tag |-> "Err", val |-> e]

\* a panic of the Rust code (expect / unwrap / slice index / overflow check)
Panic(msg) == [tag |-> "Panic", val |-> msg]

IsOk(r) == r.tag = "Ok"

IsErr(r, e) == r.tag = "Err" /\ r.val = e

IsPanic(r) == r.tag = "Panic"

None == [some |-> FALSE]

Some(v) == [some |-> TRUE, val |-> v]

(***************************************************************************)
(* Bytes                                                                   *)
(***************************************************************************)
Zeros(n) == [j \in 1..n |-> 0]

\* bytes[from..to) with Rust's 0-based half-open slice indices
Slice(bytes, from, to) == [j \in 1..(to - from) |-> bytes[from + j]]

\* big-endian value of the first n bytes; exact below 2^24 and 2^24 for every
\* larger value (the model compares it with small numbers only)
BytesToInt(bytes, n) ==
    IF \E j \in 1..(n - 3) : bytes[j] # 0 THEN 16777216
    ELSE (IF n >= 3 THEN bytes[n - 2] * 65536 ELSE 0)
         + (IF n >= 2 THEN bytes[n - 1] * 256 ELSE 0)
         + (IF n >= 1 THEN bytes[n] ELSE 0)

\* n-byte big-endian encoding of v < 256^3
IntToBytes(v, n) ==
    [j \in 1..n |-> IF j = n THEN v % 256
                    ELSE IF j = n - 1 THEN (v \div 256) % 256
                    ELSE IF j = n - 2 THEN (v \div 65536) % 256
                    ELSE 0]

(***************************************************************************)
(* secp256k1 (external): scalars modulo CurveOrder, points G^k             *)
(***************************************************************************)
CurveOrder == 11

FieldPrime == 23

Generator == 2

RECURSIVE PointMul(_, _)
\* scalar multiplication k*P, written multiplicatively: P^k mod FieldPrime
PointMul(P, k) == IF k = 0 THEN 1 ELSE (P * PointMul(P, k - 1)) % FieldPrime

\* the point at infinity (group identity): never a valid PublicKey
Infinity == 1

Scalars == 1..(CurveOrder - 1)

Points == {PointMul(Generator, k) : k \in Scalars}

\* SecretKey::from_slice: 32 bytes, 0 < value < curve order
SecretKey_from_slice(bytes) ==
    IF Len(bytes) # 32 THEN Err("InvalidSecretKey")
    ELSE LET v == BytesToInt(bytes, 32) IN
         IF v >= 1 /\ v < CurveOrder THEN Ok(v) ELSE Err("InvalidSecretKey")

\* &secret_key[..]: the 32 bytes of the scalar
SecretKey_bytes(k) == IntToBytes(k, 32)

\* SecretKey::add_assign(other): (self + other) mod n, an error when the sum is 0
SecretKey_add_assign(k, other) ==
    LET s == (k + BytesToInt(other, 32)) % CurveOrder IN
    IF s = 0 THEN Err("InvalidTweak") ELSE Ok(s)

\* PublicKey::from_secret_key
PublicKey_from_secret_key(k) == PointMul(Generator, k)

\* PublicKey::add_exp_assign(tweak): self + tweak*G, an error at infinity
PublicKey_add_exp_assign(P, tweak) ==
    LET Q == (P * PointMul(Generator, BytesToInt(tweak, 32))) % FieldPrime IN
    IF Q = Infinity THEN Err("InvalidTweak") ELSE Ok(Q)

\* PublicKey::serialize: 33 bytes, a parity prefix and the coordinate
PublicKey_serialize(P) == <<2 + (P % 2)>> \o IntToBytes(P, 32)

\* PublicKey::from_slice
PublicKey_from_slice(bytes) ==
    IF Len(bytes) # 33 THEN Err("InvalidPublicKey")
    ELSE LET P == BytesToInt(Slice(bytes, 1, 33), 32) IN
         IF P \in Points /\ bytes[1] = 2 + (P % 2) THEN Ok(P)
         ELSE Err("InvalidPublicKey")

(***************************************************************************)
(* ring (external): HMAC-SHA512 and SHA-256 as mixing functions            *)
(***************************************************************************)
RECURSIVE Mix(_, _, _)
\* a weighted sum of bytes[lo..hi] and their positions, modulo 64
Mix(bytes, lo, hi) ==
    IF lo > hi THEN 0
    ELSE IF lo = hi THEN ((2 * (lo % 8) + 1) * (bytes[lo] + 1)) % 64
    ELSE LET mid == (lo + hi) \div 2 IN
         (Mix(bytes, lo, mid) + Mix(bytes, mid + 1, hi)) % 64

\* HMAC-SHA512(key, data): 64 bytes, I_L = [0..32) and I_R = [32..64)
hmac_sha512(key, data) ==
    LET h == (7 + 3 * Mix(key, 1, Len(key)) + Mix(data, 1, Len(data))) % 64 IN
    IntToBytes(h % 16, 32) \o IntToBytes(h \div 16, 32)

\* b"Bitcoin seed"
BitcoinSeed == <<66, 105, 116, 99, 111, 105, 110, 32, 115, 101, 101, 100>>

\* sig_bytes.split_at(sig_bytes.len() / 2)
split_at(bytes, mid) ==
    <<Slice(bytes, 0, mid), Slice(bytes, mid, Len(bytes))>>

(***************************************************************************)
(* KeyIndex: src/src/extended_key/key_index.rs (u32) and its predecessor  *)
(* src/src/key_index.rs (u64)                                              *)
(***************************************************************************)
\* 2 ** 31 in the source: the top bit of the index
HARDENED_KEY_START_INDEX == 2 ^ (IndexBits - 1)

\* 2 ** 32 - 1 in the source: the largest u32
HARDENED_KEY_END_INDEX == 2 ^ IndexBits - 1

Normal(i) == [tag |-> "Normal", i |-> i]

Hardened(i) == [tag |-> "Hardened", i |-> i]

raw_index(key_index) == key_index.i

\* extended_key/key_index.rs: the index is a u32
is_valid(key_index) ==
    IF key_index.tag = "Normal" THEN key_index.i < HARDENED_KEY_START_INDEX
    ELSE key_index.i >= HARDENED_KEY_START_INDEX

\* key_index.rs: the index is a u64, checked against the u32 ceiling
is_valid_u64(key_index) ==
    IF key_index.tag = "Normal" THEN key_index.i < HARDENED_KEY_START_INDEX
    ELSE key_index.i >= HARDENED_KEY_START_INDEX
         /\ key_index.i <= HARDENED_KEY_END_INDEX

\* u32::to_be_bytes
to_be_bytes(index) == IntToBytes(index, 4)

\* extended_key/key_index.rs: every u32 is accepted
hardened_from_normalize_index(i) ==
    IF i < HARDENED_KEY_START_INDEX
    THEN Ok(Hardened(HARDENED_KEY_START_INDEX + i))
    ELSE Ok(Hardened(i))

\* a constructor that takes every raw index for a Normal one
from_index_normal_only(i) == Ok(Normal(i))

from_index(i) ==
    IF i < HARDENED_KEY_START_INDEX THEN Ok(Normal(i)) ELSE Ok(Hardened(i))

\* a constructor that adds the hardened offset to a raw hardened index too
hardened_from_normalize_index_u64_adding(i) ==
    IF i <= HARDENED_KEY_END_INDEX
    THEN Ok(Hardened(HARDENED_KEY_START_INDEX + i))
    ELSE Err("IndexOutRange")

\* a constructor whose Normal range includes the first hardened index
from_index_u64_inclusive(i) ==
    IF i <= HARDENED_KEY_START_INDEX THEN Ok(Normal(i))
    ELSE IF i <= HARDENED_KEY_END_INDEX THEN Ok(Hardened(i))
    ELSE Err("IndexOutRange")

\* key_index.rs: a u64 above the u32 ceiling is rejected
hardened_from_normalize_index_u64(i) ==
    IF i < HARDENED_KEY_START_INDEX
    THEN Ok(Hardened(HARDENED_KEY_START_INDEX + i))
    ELSE IF i <= HARDENED_KEY_END_INDEX THEN Ok(Hardened(i))
    ELSE Err("IndexOutRange")

from_index_u64(i) ==
    IF i < HARDENED_KEY_START_INDEX THEN Ok(Normal(i))
    ELSE IF i <= HARDENED_KEY_END_INDEX THEN Ok(Hardened(i))
    ELSE Err("IndexOutRange")

\* U256::from(index).into_big_endian(&mut [0u8; 32])
into_big_endian(index) == IntToBytes(index, 32)

(***************************************************************************)
(* Derivation engine: src/src/extended_key.rs                              *)
(***************************************************************************)
ExtendedPrivKey(private_key, chain_code) ==
    [private_key |-> private_key, chain_code |-> chain_code]

ExtendedPubKey(public_key, chain_code) ==
    [public_key |-> public_key, chain_code |-> chain_code]

\* a master key that keeps the whole HMAC output as its chain code
with_seed_keeping_signature(seed) ==
    LET signature == hmac_sha512(BitcoinSeed, seed)
        parts == split_at(signature, Len(signature) \div 2)
        private_key == SecretKey_from_slice(parts[1])
    IN  IF IsOk(private_key)
        THEN Ok(ExtendedPrivKey(private_key.val, signature))
        ELSE Err("InvalidResultKey")

with_seed(seed) ==
    LET signature == hmac_sha512(BitcoinSeed, seed)
        parts == split_at(signature, Len(signature) \div 2)
        private_key == SecretKey_from_slice(parts[1])
    IN  IF IsOk(private_key)
        THEN Ok(ExtendedPrivKey(private_key.val, parts[2]))
        ELSE Err("InvalidResultKey")

\* sign_hardended_key, lines 87-89: the bytes given to h.update
hardened_key_data(self, index) ==
    <<0>> \o SecretKey_bytes(self.private_key) \o to_be_bytes(index)

\* sign_normal_key, lines 96-98: the bytes given to h.update
normal_key_data(self, index) ==
    PublicKey_serialize(PublicKey_from_secret_key(self.private_key))
    \o to_be_bytes(index)

\* derive_public_key, lines 171-172: the bytes given to h.update
public_key_data(self, index) ==
    PublicKey_serialize(self.public_key) \o to_be_bytes(index)

sign_hardended_key(self, index) ==
    hmac_sha512(self.chain_code, hardened_key_data(self, index))

\* a sign_normal_key that hashes the private key, as the hardened branch does
sign_normal_key_as_hardened(self, index) == sign_hardended_key(self, index)

sign_normal_key(self, index) ==
    hmac_sha512(self.chain_code, normal_key_data(self, index))

\* a derive_private_key that looks at the key index after the HMAC
derive_private_key_checking_late(self, key_index) ==
    LET signature == IF key_index.tag = "Hardened"
                     THEN sign_hardended_key(self, key_index.i)
                     ELSE sign_normal_key(self, key_index.i)
        parts == split_at(signature, Len(signature) \div 2)
        key == SecretKey_from_slice(parts[1])
    IN  IF ~IsOk(key) THEN Err("InvalidResultKey")
        ELSE IF ~is_valid(key_index) THEN Err("InvalidKeyIndex")
        ELSE LET sum == SecretKey_add_assign(
                            key.val, SecretKey_bytes(self.private_key))
             IN  IF IsOk(sum)
                 THEN Ok([key_index |-> key_index,
                          extended_key |-> ExtendedPrivKey(sum.val, parts[2])])
                 ELSE Panic("add point")

derive_private_key(self, key_index) ==
    IF ~is_valid(key_index) THEN Err("InvalidKeyIndex")
    ELSE LET signature == IF key_index.tag = "Hardened"
                          THEN sign_hardended_key(self, key_index.i)
                          ELSE sign_normal_key(self, key_index.i)
             parts == split_at(signature, Len(signature) \div 2)
             key == SecretKey_from_slice(parts[1])
         IN  IF IsOk(key)
             THEN LET sum == SecretKey_add_assign(
                                 key.val, SecretKey_bytes(self.private_key))
                  IN  IF IsOk(sum)
                      THEN Ok([key_index |-> key_index,
                               extended_key |->
                                   ExtendedPrivKey(sum.val, parts[2])])
                      ELSE Panic("add point")
             ELSE Err("InvalidResultKey")

\* derive_public_key, lines 168-192: the child of a Normal index
derive_public_child(self, index) ==
    LET signature == hmac_sha512(self.chain_code, public_key_data(self, index))
        parts == split_at(signature, Len(signature) \div 2)
        private_key == SecretKey_from_slice(parts[1])
    IN  IF IsOk(private_key)
        THEN LET public_key == PublicKey_add_exp_assign(
                     self.public_key, SecretKey_bytes(private_key.val))
             IN  IF IsOk(public_key)
                 THEN Ok([key_index |-> Normal(index),
                          extended_key |->
                              ExtendedPubKey(public_key.val, parts[2])])
                 ELSE Err("InvalidResultKey")
        ELSE Err("InvalidResultKey")

\* a derive_public_key that forgets to refuse Hardened indices
derive_public_key_accepting_hardened(self, key_index) ==
    IF ~is_valid(key_index) THEN Err("InvalidKeyIndex")
    ELSE derive_public_child(self, key_index.i)

derive_public_key(self, key_index) ==
    IF ~is_valid(key_index) THEN Err("InvalidKeyIndex")
    ELSE IF key_index.tag = "Hardened" THEN Err("InvalidKeyIndex")
    ELSE derive_public_child(self, key_index.i)

\* derive_private_key, lines 104-110: what the call gives the HMAC, nothing
\* when it returns before
derive_private_key_hashed(self, key_index) ==
    IF ~is_valid(key_index) THEN None
    ELSE IF key_index.tag = "Hardened"
    THEN Some(hardened_key_data(self, key_index.i))
    ELSE Some(normal_key_data(self, key_index.i))

\* derive_public_key, lines 159-173: what the call gives the HMAC
derive_public_key_hashed(self, key_index) ==
    IF ~is_valid(key_index) THEN None
    ELSE IF key_index.tag = "Hardened" THEN None
    ELSE Some(public_key_data(self, key_index.i))

\* ExtendedPubKey::from_private_key
from_private_key(extended_key) ==
    ExtendedPubKey(PublicKey_from_secret_key(extended_key.private_key),
                   extended_key.chain_code)

\* ChildPubKey::from_private_key
ChildPubKey_from_private_key(child_key) ==
    [key_index |-> child_key.key_index,
     extended_key |-> from_private_key(child_key.extended_key)]

(***************************************************************************)
(* Derivation engine, earlier revision: src/src/key.rs                     *)
(***************************************************************************)
\* derive_hardended_key, lines 73-79: the bytes given to h.update
Key_hardened_key_data(self, index) ==
    <<0>> \o SecretKey_bytes(self.private_key) \o into_big_endian(index)

\* derive_normal_key, lines 100-107: the bytes given to h.update
Key_normal_key_data(self, index) ==
    PublicKey_serialize(PublicKey_from_secret_key(self.private_key))
    \o into_big_endian(index)

\* derive_public_key, lines 181-186: the bytes given to h.update
Key_public_key_data(self, index) ==
    PublicKey_serialize(self.public_key) \o into_big_endian(index)

Key_derive_hardended_key(self, index) ==
    LET signature == hmac_sha512(self.chain_code,
                                 Key_hardened_key_data(self, index))
        parts == split_at(signature, Len(signature) \div 2)
        private_key == SecretKey_from_slice(parts[1])
    IN  IF IsOk(private_key)
        THEN Ok([key_index |-> Hardened(index),
                 extended_key |-> ExtendedPrivKey(private_key.val, parts[2])])
        ELSE Err("InvalidResultKey")

Key_derive_normal_key(self, index) ==
    LET signature == hmac_sha512(self.chain_code,
                                 Key_normal_key_data(self, index))
        parts == split_at(signature, Len(signature) \div 2)
        key == SecretKey_from_slice(parts[1])
    IN  IF IsOk(key)
        THEN LET sum == SecretKey_add_assign(
                            key.val, SecretKey_bytes(self.private_key))
             IN  IF IsOk(sum)
                 THEN Ok([key_index |-> Normal(index),
                          extended_key |-> ExtendedPrivKey(sum.val, parts[2])])
                 ELSE Panic("add point")
        ELSE Err("InvalidResultKey")

Key_derive_private_key(self, key_index) ==
    IF ~is_valid_u64(key_index) THEN Err("InvalidKeyIndex")
    ELSE IF key_index.tag = "Hardened"
         THEN Key_derive_hardended_key(self, key_index.i)
         ELSE Key_derive_normal_key(self, key_index.i)

Key_derive_public_key(self, key_index) ==
    IF ~is_valid_u64(key_index) THEN Err("InvalidKeyIndex")
    ELSE IF key_index.tag = "Hardened" THEN Err("InvalidKeyIndex")
    ELSE LET index == key_index.i
             signature == hmac_sha512(self.chain_code,
                                      Key_public_key_data(self, index))
             parts == split_at(signature, Len(signature) \div 2)
             private_key == SecretKey_from_slice(parts[1])
         IN  IF IsOk(private_key)
             THEN LET public_key == PublicKey_add_exp_assign(
                          self.public_key, SecretKey_bytes(private_key.val))
                  IN  IF IsOk(public_key)
                      THEN Ok([key_index |-> Normal(index),
                               extended_key |->
                                   ExtendedPubKey(public_key.val, parts[2])])
                      ELSE Err("InvalidResultKey")
             ELSE Err("InvalidResultKey")

\* key.rs derive_private_key, lines 128-136: what the call gives the HMAC
Key_derive_private_key_hashed(self, key_index) ==
    IF ~is_valid_u64(key_index) THEN None
    ELSE IF key_index.tag = "Hardened"
    THEN Some(Key_hardened_key_data(self, key_index.i))
    ELSE Some(Key_normal_key_data(self, key_index.i))

\* key.rs derive_public_key, lines 168-186: what the call gives the HMAC
Key_derive_public_key_hashed(self, key_index) ==
    IF ~is_valid_u64(key_index) THEN None
    ELSE IF key_index.tag = "Hardened" THEN None
    ELSE Some(Key_public_key_data(self, key_index.i))

(***************************************************************************)
(* Random master keys: extended_key.rs, key.rs, lib.rs                     *)
(***************************************************************************)
\* enum KeySeed { S128 = 128, S256 = 256, S512 = 512 }
KeySeed == {"S128", "S256", "S512"}

\* seed_size as usize, at one model byte for 128
seed_size_as_usize(seed_size) ==
    CASE seed_size = "S128" -> 1
      [] seed_size = "S256" -> 2
      [] seed_size = "S512" -> 3

\* the bytes a random generator yields
RandomBytes == 0..4

\* what thread_rng() yields for a fill of up to the largest seed
RngOutputs == [1..seed_size_as_usize("S512") -> RandomBytes]

\* vec![0; n]: n zero bytes
vec_zeroed(n) == Zeros(n)

\* Vec::with_capacity(n): room for n bytes, none in it
Vec_with_capacity(n) == <<>>

\* rng.fill(slice): every byte of the slice is overwritten
rng_fill(slice, rng) == [j \in 1..Len(slice) |-> rng[j]]

\* the seed of extended_key.rs random_with_seed_size
random_seed_zeroed(n, rng) == rng_fill(vec_zeroed(n), rng)

\* the seed of key.rs random_with_seed_size and of lib.rs generate_master_key
random_seed_with_capacity(n, rng) == rng_fill(Vec_with_capacity(n), rng)

\* the master key made from the seed; the error is the revision's
master_key_of_seed(seed, error) ==
    LET signature == hmac_sha512(BitcoinSeed, seed)
        parts == split_at(signature, Len(signature) \div 2)
        private_key == SecretKey_from_slice(parts[1])
    IN  IF IsOk(private_key)
        THEN Ok(ExtendedPrivKey(private_key.val, parts[2]))
        ELSE Err(error)

(***************************************************************************)
(* Path text.  A string is a sequence of characters; every character of    *)
(* the model is one byte long in UTF-8 except MultiByteChar.               *)
(***************************************************************************)
MASTER_SYMBOL == <<"m">>

HARDENED_SYMBOLS == {"H", "'"}

SEPARATOR == "/"

DigitChars == {"0", "1", "5"}

\* a two-byte character (U+00E9)
MultiByteChar == "U+00E9"

PathChars == {"m", SEPARATOR, "H", "'", "h", "+", MultiByteChar} \cup DigitChars

DigitValue(c) == IF c = "0" THEN 0 ELSE IF c = "1" THEN 1 ELSE 5

ByteLen(c) == IF c = MultiByteChar THEN 2 ELSE 1

\* s without its last character
Front(s) == SubSeq(s, 1, Len(s) - 1)

RECURSIVE DecimalValue(_, _)
\* the value of the first n characters of a string of digits
DecimalValue(s, n) ==
    IF n = 0 THEN 0 ELSE 10 * DecimalValue(s, n - 1) + DigitValue(s[n])

\* str::parse for an unsigned integer type with the given MAX: an optional
\* leading "+", then one or more digits, the value no larger than MAX
parse_unsigned(s, max) ==
    IF s = <<>> THEN Err("Empty")
    ELSE LET digits == IF s[1] = "+" THEN Tail(s) ELSE s IN
         IF digits = <<>> THEN Err("InvalidDigit")
         ELSE IF \E j \in 1..Len(digits) : digits[j] \notin DigitChars
         THEN Err("InvalidDigit")
         ELSE IF DecimalValue(digits, Len(digits)) > max THEN Err("PosOverflow")
         ELSE Ok(DecimalValue(digits, Len(digits)))

\* u32::MAX and u64::MAX at the model's index width
U32_MAX == 2 ^ IndexBits - 1

U64_MAX == 2 ^ (2 * IndexBits) - 1

RECURSIVE Split(_, _, _)
\* str::split(SEPARATOR): the pieces between separators, empty ones included
Split(s, j, piece) ==
    IF j > Len(s) THEN <<piece>>
    ELSE IF s[j] = SEPARATOR THEN <<piece>> \o Split(s, j + 1, <<>>)
    ELSE Split(s, j + 1, Append(piece, s[j]))

\* str::split_terminator(SEPARATOR): as split, without a final empty piece
split_terminator(s) ==
    LET pieces == Split(s, 1, <<>>) IN
    IF pieces[Len(pieces)] = <<>> THEN Front(pieces) ELSE pieces

(***************************************************************************)
(* ChainPath as text and its step iterator:                                *)
(* src/src/key_chain/chain_path.rs                                         *)
(***************************************************************************)
Root == [tag |-> "Root"]

Child(index) == [tag |-> "Child", key_index |-> index]

\* Iter::next on the segment the underlying split yields
Iter_next(sub_path) ==
    IF sub_path = MASTER_SYMBOL THEN Ok(Root)
    ELSE IF sub_path = <<>> THEN Err("Blank")
    ELSE IF ByteLen(sub_path[Len(sub_path)]) > 1
    THEN Panic("byte index is not a char boundary")
    ELSE LET last_char == sub_path[Len(sub_path)]
             is_hardened == last_char \in HARDENED_SYMBOLS
             number == IF is_hardened
                       THEN parse_unsigned(Front(sub_path), U32_MAX)
                       ELSE parse_unsigned(sub_path, U32_MAX)
             key_index_result ==
                 IF ~IsOk(number) THEN Err("Invalid")
                 ELSE LET made == IF is_hardened
                                  THEN hardened_from_normalize_index(number.val)
                                  ELSE from_index(number.val)
                      IN  IF IsOk(made) THEN made ELSE Err("KeyIndexOutOfRange")
         IN  IF IsOk(key_index_result) THEN Ok(Child(key_index_result.val))
             ELSE key_index_result

\* ChainPath::iter: the iterator starts on the split of the stored text
ChainPath_iter(path) == split_terminator(path)

(***************************************************************************)
(* ChainPath as a list of nodes, earlier revision: src/src/chain_path.rs   *)
(* Root is the empty list, Node(parent, key_index) is parent with          *)
(* key_index appended.                                                     *)
(***************************************************************************)
PathError(level, reason) == Err([level |-> level, reason |-> reason])

\* from_string, lines 46-83: one round of the loop over the segments.
\* sub_path.len() - 1 on an empty segment overflows: a panic where overflow
\* checks are compiled in, a wrap to usize::MAX (and no such slice) elsewhere.
from_string_segment(sub_path, level, overflow_checks) ==
    IF sub_path = <<>> /\ overflow_checks
    THEN Panic("attempt to subtract with overflow")
    ELSE IF sub_path = <<>> \/ ByteLen(sub_path[Len(sub_path)]) > 1
    THEN PathError(level, "Subpath can't be blank")
    ELSE LET last_char == sub_path[Len(sub_path)]
             is_hardened == last_char \in HARDENED_SYMBOLS
             index_result == IF is_hardened
                             THEN parse_unsigned(Front(sub_path), U64_MAX)
                             ELSE parse_unsigned(sub_path, U64_MAX)
         IN  IF ~IsOk(index_result)
             THEN PathError(level, "Illegal key index format")
             ELSE LET made == from_index_u64(index_result.val) IN
                  IF IsOk(made) THEN made
                  ELSE PathError(level, "Key index out of range")

RECURSIVE from_string_loop(_, _, _, _)
from_string_loop(segments, i, chain_path, overflow_checks) ==
    IF i > Len(segments) THEN Ok(chain_path)
    ELSE LET key_index == from_string_segment(segments[i], i - 1, overflow_checks)
         IN  IF IsOk(key_index)
             THEN from_string_loop(segments, i + 1,
                                   Append(chain_path, key_index.val),
                                   overflow_checks)
             ELSE key_index

from_string(path, overflow_checks) ==
    LET segments == split_terminator(path) IN
    IF segments = <<>> \/ segments[1] # MASTER_SYMBOL
    THEN PathError(0, "Must start with 'm'")
    ELSE from_string_loop(segments, 2, <<>>, overflow_checks)

\* the ten decimal digits, as u64::to_string writes them
DecimalDigit(d) ==
    IF d = 0 THEN "0" ELSE IF d = 1 THEN "1" ELSE IF d = 2 THEN "2"
    ELSE IF d = 3 THEN "3" ELSE IF d = 4 THEN "4" ELSE IF d = 5 THEN "5"
    ELSE IF d = 6 THEN "6" ELSE IF d = 7 THEN "7" ELSE IF d = 8 THEN "8"
    ELSE "9"

RECURSIVE u64_to_string(_)
\* i.to_string(): decimal, no sign, no leading zeros
u64_to_string(i) ==
    IF i < 10 THEN <<DecimalDigit(i)>>
    ELSE u64_to_string(i \div 10) \o <<DecimalDigit(i % 10)>>

\* to_string, lines 101-104: one level, the raw index and H when hardened
level_to_string(key_index) ==
    IF key_index.tag = "Normal" THEN u64_to_string(key_index.i)
    ELSE u64_to_string(key_index.i) \o <<"H">>

RECURSIVE to_string(_)
\* ChainPath::to_string: m and the levels from the root down, joined by /
to_string(chain_path) ==
    IF chain_path = <<>> THEN MASTER_SYMBOL
    ELSE to_string(Front(chain_path))
         \o <<SEPARATOR>> \o level_to_string(chain_path[Len(chain_path)])

RECURSIVE collect_loop(_, _, _)
collect_loop(segments, i, acc) ==
    IF i > Len(segments) THEN Ok(acc)
    ELSE LET item == Iter_next(segments[i]) IN
         IF IsOk(item) THEN collect_loop(segments, i + 1, Append(acc, item.val))
         ELSE item

\* chain_path.iter().collect::<Result<Vec<_>, _>>(): the steps up to the first
\* error, or that error
collect(path) == collect_loop(ChainPath_iter(path), 1, <<>>)

(***************************************************************************)
(* KeyChain: src/src/key_chain.rs                                          *)
(***************************************************************************)
\* From<ChainPathError> for Error: Error::ChainPath(err)
ChainPathError(err) ==
    IF err = "Invalid" THEN "ChainPath(Invalid)"
    ELSE IF err = "Blank" THEN "ChainPath(Blank)"
    ELSE "ChainPath(KeyIndexOutOfRange)"

\* fetch_key, lines 20-23: the first item of the iterator must be Ok(Root)
fetch_key_first(segments) ==
    IF segments = <<>> THEN Err(ChainPathError("Invalid"))
    ELSE LET item == Iter_next(segments[1]) IN
         IF IsPanic(item) THEN item
         ELSE IF IsOk(item) /\ item.val = Root THEN Ok(Root)
         ELSE Err(ChainPathError("Invalid"))

\* a loop body that steps over a Root it meets after the first step
fetch_key_step_skipping_root(key, sub_path) ==
    LET item == Iter_next(sub_path) IN
    IF IsPanic(item) THEN item
    ELSE IF ~IsOk(item) THEN Err(ChainPathError(item.val))
    ELSE IF item.val.tag = "Child"
    THEN derive_private_key(key, item.val.key_index)
    ELSE Ok([key_index |-> Normal(0), extended_key |-> key])

\* fetch_key, lines 25-32: the loop body for one further item.  The result is
\* the ChildPrivKey whose extended_key becomes the current key.
fetch_key_step(key, sub_path) ==
    LET item == Iter_next(sub_path) IN
    IF IsPanic(item) THEN item
    ELSE IF ~IsOk(item) THEN Err(ChainPathError(item.val))
    ELSE IF item.val.tag = "Child"
    THEN derive_private_key(key, item.val.key_index)
    ELSE Err(ChainPathError("Invalid"))

RECURSIVE fetch_key_loop(_, _)
\* fetch_key, lines 24-34: the loop over the remaining items and the return
fetch_key_loop(key, segments) ==
    IF segments = <<>> THEN Ok(key)
    ELSE LET child == fetch_key_step(key, Head(segments)) IN
         IF IsOk(child)
         THEN fetch_key_loop(child.val.extended_key, Tail(segments))
         ELSE child

\* DefaultKeyChain::new(master_key).fetch_key(chain_path)
fetch_key(master, chain_path) ==
    LET segments == ChainPath_iter(chain_path)
        first == fetch_key_first(segments)
    IN  IF IsOk(first) THEN fetch_key_loop(master, Tail(segments)) ELSE first

(***************************************************************************)
(* Derivation metadata of the key chain.  The revision of fetch_key that   *)
(* returns it is used by hdwallet-bitcoin but is not among the sources:    *)
(* these definitions follow the specification's section on the KeyChain.   *)
(***************************************************************************)
\* the master key: depth 0, no parent, no index
Derivation_master == [depth |-> 0, parent_key |-> None, key_index |-> None]

\* a step that records the derived key instead of the key it was derived from
Derivation_child_recording_child(derivation, key, index, child) ==
    [depth |-> derivation.depth + 1,
     parent_key |-> Some(child),
     key_index |-> Some(index)]

\* one Child step: depth + 1, the pre-derivation key as parent, the index used
Derivation_child(derivation, key, index, child) ==
    [depth |-> derivation.depth + 1,
     parent_key |-> Some(key),
     key_index |-> Some(index)]

(***************************************************************************)
(* Bitcoin serialization: src/hdwallet-bitcoin/src/serialize.rs            *)
(***************************************************************************)
\* digest::digest(&digest::SHA256, data): 32 bytes
sha256(data) ==
    IntToBytes((13 + 5 * Mix(data, 1, Len(data))) % 64, 4) \o Zeros(28)

\* Ripemd160::new().input(data).result(): 20 bytes
ripemd160(data) ==
    IntToBytes((3 * Mix(data, 1, Len(data)) + 58) % 64, 4) \o Zeros(16)

Networks == {"MainNet", "TestNet"}

KeyTypes == {"PrivKey", "PubKey"}

Version(network, key_type) == [network |-> network, key_type |-> key_type]

\* the digits hex::encode writes
HexDigits ==
    <<"0", "1", "2", "3", "4", "5", "6", "7",
      "8", "9", "a", "b", "c", "d", "e", "f">>

\* hex::encode(data): two lower-case digits for each byte
hex_encode(data) ==
    [j \in 1..(2 * Len(data)) |->
        LET byte == data[(j + 1) \div 2] IN
        IF j % 2 = 1 THEN HexDigits[(byte \div 16) + 1]
        ELSE HexDigits[(byte % 16) + 1]]

\* char::to_uppercase on a hex digit
UpperDigit(c) ==
    CASE c = "a" -> "A" [] c = "b" -> "B" [] c = "c" -> "C"
      [] c = "d" -> "D" [] c = "e" -> "E" [] c = "f" -> "F"
      [] OTHER -> c

\* str::to_uppercase
to_uppercase(text) == [j \in 1..Len(text) |-> UpperDigit(text[j])]

\* the value of a hex digit of either case
HexValue(c) ==
    CHOOSE v \in 0..15 : HexDigits[v + 1] = c \/ UpperDigit(HexDigits[v + 1]) = c

\* hex::decode(text) of an even number of hex digits
hex_decode(text) ==
    [j \in 1..(Len(text) \div 2) |->
        16 * HexValue(text[2 * j - 1]) + HexValue(text[2 * j])]

\* the hex strings of the four versions
MainNetPrivKeyHex == <<"0", "4", "8", "8", "A", "D", "E", "4">>

MainNetPubKeyHex == <<"0", "4", "8", "8", "B", "2", "1", "E">>

TestNetPrivKeyHex == <<"0", "4", "3", "5", "8", "3", "9", "4">>

TestNetPubKeyHex == <<"0", "4", "3", "5", "8", "7", "C", "F">>

\* Version::to_bytes: the 4 version bytes
Version_to_bytes(self) ==
    LET hex_str ==
            IF self.network = "MainNet"
            THEN IF self.key_type = "PrivKey" THEN MainNetPrivKeyHex
                 ELSE MainNetPubKeyHex
            ELSE IF self.key_type = "PrivKey" THEN TestNetPrivKeyHex
                 ELSE TestNetPubKeyHex
    IN  hex_decode(hex_str)

\* Key::version_bytes of hdwallet-bitcoin/src/lib.rs: the same table, on the
\* network and the kind of the key
Key_version_bytes(network, key_type) ==
    LET hex_str ==
            IF network = "MainNet"
            THEN IF key_type = "PrivKey" THEN MainNetPrivKeyHex
                 ELSE MainNetPubKeyHex
            ELSE IF key_type = "PrivKey" THEN TestNetPrivKeyHex
                 ELSE TestNetPubKeyHex
    IN  hex_decode(hex_str)

\* a from_bytes that matches the digits as hex::encode wrote them
Version_from_bytes_lowercase(data) ==
    LET text == hex_encode(data) IN
    IF text = MainNetPrivKeyHex THEN Ok(Version("MainNet", "PrivKey"))
    ELSE IF text = MainNetPubKeyHex THEN Ok(Version("MainNet", "PubKey"))
    ELSE IF text = TestNetPrivKeyHex THEN Ok(Version("TestNet", "PrivKey"))
    ELSE IF text = TestNetPubKeyHex THEN Ok(Version("TestNet", "PubKey"))
    ELSE Err("UnknownVersion")

\* Version::from_bytes
Version_from_bytes(data) ==
    LET text == to_uppercase(hex_encode(data)) IN
    IF text = MainNetPrivKeyHex THEN Ok(Version("MainNet", "PrivKey"))
    ELSE IF text = MainNetPubKeyHex THEN Ok(Version("MainNet", "PubKey"))
    ELSE IF text = TestNetPrivKeyHex THEN Ok(Version("TestNet", "PrivKey"))
    ELSE IF text = TestNetPubKeyHex THEN Ok(Version("TestNet", "PubKey"))
    ELSE Err("UnknownVersion")

\* Derivation { depth, parent_key, key_index }
Derivation(depth, parent_key, key_index) ==
    [depth |-> depth, parent_key |-> parent_key, key_index |-> key_index]

\* first 4 bytes of RIPEMD160(SHA256(parent public key)), zeros without parent
parent_fingerprint(self) ==
    IF self.parent_key.some
    THEN LET pubkey == from_private_key(self.parent_key.val)
             buf == sha256(PublicKey_serialize(pubkey.public_key))
         IN  Slice(ripemd160(buf), 0, 4)
    ELSE Zeros(4)

\* an encoder that writes the raw index before the parent fingerprint
encode_derivation_index_first(version, derivation) ==
    Version_to_bytes(version)
    \o <<derivation.depth % 256>>
    \o (IF derivation.key_index.some
        THEN to_be_bytes(raw_index(derivation.key_index.val))
        ELSE Zeros(4))
    \o parent_fingerprint(derivation)

\* version, depth, parent fingerprint and raw index appended to an empty buf
encode_derivation(version, derivation) ==
    Version_to_bytes(version)
    \o <<derivation.depth % 256>>
    \o parent_fingerprint(derivation)
    \o (IF derivation.key_index.some
        THEN to_be_bytes(raw_index(derivation.key_index.val))
        ELSE Zeros(4))

decode_derivation(buf) ==
    LET version == Version_from_bytes(Slice(buf, 0, 4)) IN
    IF ~IsOk(version) THEN version
    ELSE LET depth == buf[5]
             fingerprint == Slice(buf, 5, 9)
             key_index ==
                 IF fingerprint = Zeros(4) THEN None
                 ELSE Some(from_index(BytesToInt(Slice(buf, 9, 13), 4)).val)
         IN  Ok(<<version.val, Derivation(depth, None, key_index)>>)

\* appends the first 4 bytes of SHA256(SHA256(buf))
encode_checksum(buf) == buf \o Slice(sha256(sha256(buf)), 0, 4)

\* slicing buf[0..78] and buf[78..82] panics on a shorter buffer
verify_checksum(buf) ==
    IF Len(buf) < 82 THEN Panic("range end index out of range for slice")
    ELSE IF Slice(sha256(sha256(Slice(buf, 0, 78))), 0, 4) = Slice(buf, 78, 82)
    THEN Ok(<<>>)
    ELSE Err("MisChecksum")

\* PrivKey / PubKey { network, derivation, extended_key }
HDKey(network, derivation, extended_key) ==
    [network |-> network, derivation |-> derivation,
     extended_key |-> extended_key]

\* Serialize<Vec<u8>> for PrivKey: the bytes returned, or the panic of
\* assert_eq!(buf.len(), 78)
PrivKey_serialize_result(self) ==
    LET buf == encode_derivation(Version(self.network, "PrivKey"),
                                 self.derivation)
               \o self.extended_key.chain_code
               \o <<0>>
               \o SecretKey_bytes(self.extended_key.private_key)
    IN  IF Len(buf) # 78 THEN Panic("assertion failed: buf.len() == 78")
        ELSE Ok(encode_checksum(buf))

\* Serialize<Vec<u8>> for PrivKey
PrivKey_serialize(self) ==
    LET result == PrivKey_serialize_result(self) IN
    IF IsOk(result) THEN result.val ELSE result

\* Serialize<Vec<u8>> for PubKey: the bytes returned, or the panic of
\* assert_eq!(buf.len(), 78)
PubKey_serialize_result(self) ==
    LET buf == encode_derivation(Version(self.network, "PubKey"),
                                 self.derivation)
               \o self.extended_key.chain_code
               \o PublicKey_serialize(self.extended_key.public_key)
    IN  IF Len(buf) # 78 THEN Panic("assertion failed: buf.len() == 78")
        ELSE Ok(encode_checksum(buf))

\* Serialize<Vec<u8>> for PubKey
PubKey_serialize(self) ==
    LET result == PubKey_serialize_result(self) IN
    IF IsOk(result) THEN result.val ELSE result

\* a decoder that takes the 32 key bytes one byte early
PrivKey_deserialize_from_byte_45(data) ==
    LET checked == verify_checksum(data) IN
    IF ~IsOk(checked) THEN checked
    ELSE LET decoded == decode_derivation(data) IN
         IF ~IsOk(decoded) THEN decoded
         ELSE LET private_key == SecretKey_from_slice(Slice(data, 45, 77)) IN
              IF ~IsOk(private_key) THEN Err("Secp(InvalidSecretKey)")
              ELSE Ok(HDKey(decoded.val[1].network, decoded.val[2],
                            ExtendedPrivKey(private_key.val,
                                            Slice(data, 13, 45))))

\* a decoder that reads the version and the key before it verifies the checksum
PrivKey_deserialize_checksum_last(data) ==
    LET decoded == decode_derivation(data) IN
    IF ~IsOk(decoded) THEN decoded
    ELSE LET private_key == SecretKey_from_slice(Slice(data, 46, 78)) IN
         IF ~IsOk(private_key) THEN Err("Secp(InvalidSecretKey)")
         ELSE LET checked == verify_checksum(data) IN
              IF ~IsOk(checked) THEN checked
              ELSE Ok(HDKey(decoded.val[1].network, decoded.val[2],
                            ExtendedPrivKey(private_key.val,
                                            Slice(data, 13, 45))))

\* Deserialize<Vec<u8>, Error> for PrivKey
PrivKey_deserialize(data) ==
    LET checked == verify_checksum(data) IN
    IF ~IsOk(checked) THEN checked
    ELSE LET decoded == decode_derivation(data) IN
         IF ~IsOk(decoded) THEN decoded
         ELSE LET private_key == SecretKey_from_slice(Slice(data, 46, 78)) IN
              IF ~IsOk(private_key) THEN Err("Secp(InvalidSecretKey)")
              ELSE Ok(HDKey(decoded.val[1].network, decoded.val[2],
                            ExtendedPrivKey(private_key.val,
                                            Slice(data, 13, 45))))

\* Deserialize<Vec<u8>, Error> for PubKey
PubKey_deserialize(data) ==
    LET checked == verify_checksum(data) IN
    IF ~IsOk(checked) THEN checked
    ELSE LET decoded == decode_derivation(data) IN
         IF ~IsOk(decoded) THEN decoded
         ELSE LET public_key == PublicKey_from_slice(Slice(data, 45, 78)) IN
              IF ~IsOk(public_key) THEN Err("Secp(InvalidPublicKey)")
              ELSE Ok(HDKey(decoded.val[1].network, decoded.val[2],
                            ExtendedPubKey(public_key.val,
                                           Slice(data, 13, 45))))

(***************************************************************************)
(* State                                                                   *)
(***************************************************************************)
VARIABLES
    \* derivation engine: the revision in use, a parent key, a key index and
    \* the results of the derivations made from them
    rev, parent, key_index, child_priv, child_pub, child_pub_from_priv,
    \* the bytes the private and the public derivation gave the HMAC
    priv_hashed, pub_hashed,
    \* path text, the results of collecting its steps and of from_string
    path, collected, parsed, formatted,
    \* key chain: the seed, the master key made from it, and a fetch_key call
    \* in progress: the iterator's remaining segments, the current key, its
    \* derivation metadata, the result
    seed, master_key, iter, key, derivation, fetched,
    \* the fetch_key calls that returned on this key chain before the current one
    calls,
    \* serialization: a key with its metadata, its serialized bytes, whether
    \* they were altered since, and the result of deserializing them
    hd_key, wire, tampered, decoded,
    \* the result of serializing a key that an operation of the library made
    reserialized,
    \* key index constructors: the revision, the integer passed in, and the
    \* results of hardened_from_normalize_index and of from_index
    index_rev, index_input, hardened_index, made_index,
    \* version bytes: a version and its bytes, the version read back from
    \* them, four bytes of input and the version read from them
    version, version_encoded, version_reparsed, version_data, version_decoded,
    \* random master key: the revision, the requested seed size, the seed fed
    \* to the HMAC and the key returned
    random_rev, seed_size, random_seed, random_key

engineVars ==
    <<rev, parent, key_index, child_priv, child_pub, child_pub_from_priv,
      priv_hashed, pub_hashed>>

pathVars == <<path, collected, parsed, formatted>>

chainVars == <<seed, master_key, iter, key, derivation, fetched, calls>>

codecVars == <<hd_key, wire, tampered, decoded, reserialized>>

indexVars == <<index_rev, index_input, hardened_index, made_index>>

versionVars ==
    <<version, version_encoded, version_reparsed, version_data, version_decoded>>

randomVars == <<random_rev, seed_size, random_seed, random_key>>

pureVars == <<indexVars, versionVars, randomVars>>

vars == <<engineVars, pathVars, chainVars, codecVars, pureVars>>

Revisions == {"extended_key.rs", "key.rs"}

\* chain codes the scaled HMAC produces: 32 bytes, I_R
ChainCodes == {IntToBytes(c, 32) : c \in 0..3}

ParentKeys == {ExtendedPrivKey(k, c) : k \in Scalars, c \in ChainCodes}

\* every KeyIndex value the revision's integer type holds, valid or not
KeyIndices(r) ==
    LET top == IF r = "key.rs" THEN HARDENED_KEY_END_INDEX + 1
               ELSE HARDENED_KEY_END_INDEX
    IN  {Normal(i) : i \in 0..top} \cup {Hardened(i) : i \in 0..top}

EngineIdle ==
    /\ rev = "extended_key.rs"
    /\ parent = ExtendedPrivKey(1, IntToBytes(0, 32))
    /\ key_index = Normal(0)
    /\ child_priv = None
    /\ child_pub = None
    /\ child_pub_from_priv = None
    /\ priv_hashed = None
    /\ pub_hashed = None

PathIdle ==
    /\ collected = None
    /\ parsed = None
    /\ formatted = None

ChainIdle ==
    /\ seed = <<>>
    /\ master_key = None
    /\ iter = None
    /\ key = None
    /\ derivation = Derivation_master
    /\ fetched = None
    /\ calls = 0

CodecIdle ==
    /\ hd_key = [key_type |-> "PrivKey",
                 key |-> HDKey("MainNet", Derivation_master,
                               ExtendedPrivKey(1, IntToBytes(0, 32)))]
    /\ wire = None
    /\ tampered = FALSE
    /\ decoded = None
    /\ reserialized = None

IndexIdle ==
    /\ index_rev = "extended_key/key_index.rs"
    /\ index_input = 0
    /\ hardened_index = None
    /\ made_index = None

VersionIdle ==
    /\ version = Version("MainNet", "PrivKey")
    /\ version_encoded = None
    /\ version_reparsed = None
    /\ version_data = Zeros(4)
    /\ version_decoded = None

RandomIdle ==
    /\ random_rev = "extended_key.rs"
    /\ seed_size = "S256"
    /\ random_seed = None
    /\ random_key = None

PureIdle == IndexIdle /\ VersionIdle /\ RandomIdle

(***************************************************************************)
(* The derivation engine as a state machine                                *)
(***************************************************************************)
InitDerive ==
    /\ rev \in Revisions
    /\ parent \in ParentKeys
    /\ key_index \in KeyIndices(rev)
    /\ child_priv = None
    /\ child_pub = None
    /\ child_pub_from_priv = None
    /\ priv_hashed = None
    /\ pub_hashed = None
    /\ path = <<>>
    /\ PathIdle
    /\ ChainIdle
    /\ CodecIdle
    /\ PureIdle

\* parent.derive_private_key(key_index), extended_key.rs
DerivePrivateKey ==
    /\ rev = "extended_key.rs"
    /\ ~child_priv.some
    /\ child_priv' = Some(derive_private_key(parent, key_index))
    /\ priv_hashed' = derive_private_key_hashed(parent, key_index)
    /\ UNCHANGED <<rev, parent, key_index, child_pub, child_pub_from_priv, pub_hashed>>
    /\ UNCHANGED <<pathVars, chainVars, codecVars, pureVars>>

\* ExtendedPubKey::from_private_key(&parent).derive_public_key(key_index)
DerivePublicKey ==
    /\ rev = "extended_key.rs"
    /\ ~child_pub.some
    /\ child_pub' = Some(derive_public_key(from_private_key(parent), key_index))
    /\ pub_hashed' = derive_public_key_hashed(from_private_key(parent), key_index)
    /\ UNCHANGED <<rev, parent, key_index, child_priv, child_pub_from_priv, priv_hashed>>
    /\ UNCHANGED <<pathVars, chainVars, codecVars, pureVars>>

\* parent.derive_private_key(key_index), key.rs
Key_DerivePrivateKey ==
    /\ rev = "key.rs"
    /\ ~child_priv.some
    /\ child_priv' = Some(Key_derive_private_key(parent, key_index))
    /\ priv_hashed' = Key_derive_private_key_hashed(parent, key_index)
    /\ UNCHANGED <<rev, parent, key_index, child_pub, child_pub_from_priv, pub_hashed>>
    /\ UNCHANGED <<pathVars, chainVars, codecVars, pureVars>>

\* ExtendedPubKey::from_private_key(&parent).derive_public_key(key_index), key.rs
Key_DerivePublicKey ==
    /\ rev = "key.rs"
    /\ ~child_pub.some
    /\ child_pub' =
           Some(Key_derive_public_key(from_private_key(parent), key_index))
    /\ pub_hashed' =
           Key_derive_public_key_hashed(from_private_key(parent), key_index)
    /\ UNCHANGED <<rev, parent, key_index, child_priv, child_pub_from_priv, priv_hashed>>
    /\ UNCHANGED <<pathVars, chainVars, codecVars, pureVars>>

\* ChildPubKey::from_private_key(&child_priv_key)
ChildPubFromPrivateKey ==
    /\ child_priv.some
    /\ IsOk(child_priv.val)
    /\ ~child_pub_from_priv.some
    /\ child_pub_from_priv' =
           Some(ChildPubKey_from_private_key(child_priv.val.val))
    /\ UNCHANGED <<rev, parent, key_index, child_priv, child_pub, priv_hashed, pub_hashed>>
    /\ UNCHANGED <<pathVars, chainVars, codecVars, pureVars>>

NextDerive ==
    \/ DerivePrivateKey
    \/ DerivePublicKey
    \/ Key_DerivePrivateKey
    \/ Key_DerivePublicKey
    \/ ChildPubFromPrivateKey

SpecDerive == InitDerive /\ [][NextDerive]_vars

(***************************************************************************)
(* The path parsers as a state machine                                     *)
(***************************************************************************)
\* every text of at most MaxPathLen characters
PathTexts == UNION {[1..n -> PathChars] : n \in 0..MaxPathLen}

InitPath ==
    /\ path \in PathTexts
    /\ PathIdle
    /\ EngineIdle
    /\ ChainIdle
    /\ CodecIdle
    /\ PureIdle

\* ChainPath::from(path).iter().collect::<Result<Vec<_>, _>>()
Collect ==
    /\ ~collected.some
    /\ collected' = Some(collect(path))
    /\ UNCHANGED <<path, parsed, formatted, engineVars, chainVars, codecVars, pureVars>>

\* ChainPath::from_string(path), in a build with or without overflow checks
FromString ==
    /\ ~parsed.some
    /\ \E overflow_checks \in BOOLEAN :
           parsed' = Some([overflow_checks |-> overflow_checks,
                           result |-> from_string(path, overflow_checks)])
    /\ UNCHANGED <<path, collected, formatted, engineVars, chainVars, codecVars, pureVars>>

\* chain_path.to_string() of a path from_string returned
PathToString ==
    /\ parsed.some /\ IsOk(parsed.val.result)
    /\ ~formatted.some
    /\ formatted' = Some(to_string(parsed.val.result.val))
    /\ UNCHANGED <<path, collected, parsed, engineVars, chainVars, codecVars, pureVars>>

NextPath ==
    \/ Collect
    \/ FromString
    \/ PathToString

SpecPath == InitPath /\ [][NextPath]_vars

(***************************************************************************)
(* The key chain as a state machine: with_seed, then fetch_key             *)
(***************************************************************************)
\* seeds of at most MaxSeedLen bytes
Seeds == UNION {[1..n -> 0..1] : n \in 0..MaxSeedLen}

\* the segments paths are built from: the master symbol, a blank, a normal
\* index, a hardened index written three ways, text that is no index, and
\* text ending in a char of more than one byte
Segments ==
    {<<"m">>, <<>>, <<"1">>, <<"5">>, <<"1", "H">>, <<"1", "'">>, <<"h">>,
     <<MultiByteChar>>}

RECURSIVE Join(_)
\* the segments with a separator between neighbours
Join(segments) ==
    IF Len(segments) = 0 THEN <<>>
    ELSE IF Len(segments) = 1 THEN segments[1]
    ELSE segments[1] \o <<SEPARATOR>> \o Join(Tail(segments))

ChainPaths ==
    {Join(segments) : segments \in UNION {[1..n -> Segments] : n \in 0..MaxSegments}}

Init ==
    /\ seed \in Seeds
    /\ path \in ChainPaths
    /\ master_key = None
    /\ iter = None
    /\ key = None
    /\ derivation = Derivation_master
    /\ fetched = None
    /\ calls = 0
    /\ PathIdle
    /\ EngineIdle
    /\ CodecIdle
    /\ PureIdle

\* ExtendedPrivKey::with_seed(&seed)
WithSeed ==
    /\ ~master_key.some
    /\ master_key' = Some(with_seed(seed))
    /\ UNCHANGED <<seed, calls, iter, key, derivation, fetched, pathVars, engineVars, codecVars, pureVars>>

\* fetch_key up to the loop: the iterator is made and its first item taken
FetchKeyFirst ==
    /\ master_key.some /\ IsOk(master_key.val)
    /\ ~iter.some /\ ~fetched.some
    /\ LET segments == ChainPath_iter(path)
           first == fetch_key_first(segments)
       IN  IF IsOk(first)
           THEN /\ iter' = Some(Tail(segments))
                /\ key' = Some(master_key.val.val)
                /\ derivation' = Derivation_master
                /\ fetched' = fetched
           ELSE /\ fetched' = Some(first)
                /\ UNCHANGED <<iter, key, derivation>>
    /\ UNCHANGED <<seed, calls, master_key, pathVars, engineVars, codecVars, pureVars>>

\* a loop that keeps the current key in the key chain's master_key
FetchKeyStep_keeping_key_in_master ==
    /\ iter.some /\ ~fetched.some
    /\ iter.val # <<>>
    /\ LET child == fetch_key_step(key.val, Head(iter.val)) IN
       IF IsOk(child)
       THEN /\ iter' = Some(Tail(iter.val))
            /\ key' = Some(child.val.extended_key)
            /\ master_key' = Some(Ok(child.val.extended_key))
            /\ derivation' = Derivation_child(derivation, key.val,
                                              child.val.key_index,
                                              child.val.extended_key)
            /\ fetched' = fetched
       ELSE /\ fetched' = Some(child)
            /\ UNCHANGED <<iter, key, derivation, master_key>>
    /\ UNCHANGED <<seed, calls, pathVars, engineVars, codecVars, pureVars>>

\* one turn of fetch_key's loop
FetchKeyStep ==
    /\ iter.some /\ ~fetched.some
    /\ iter.val # <<>>
    /\ LET child == fetch_key_step(key.val, Head(iter.val)) IN
       IF IsOk(child)
       THEN /\ iter' = Some(Tail(iter.val))
            /\ key' = Some(child.val.extended_key)
            /\ derivation' = Derivation_child(derivation, key.val,
                                              child.val.key_index,
                                              child.val.extended_key)
            /\ fetched' = fetched
       ELSE /\ fetched' = Some(child)
            /\ UNCHANGED <<iter, key, derivation>>
    /\ UNCHANGED <<seed, calls, master_key, pathVars, engineVars, codecVars, pureVars>>

\* fetch_key's return once the iterator is exhausted
FetchKeyReturn ==
    /\ iter.some /\ ~fetched.some
    /\ iter.val = <<>>
    /\ fetched' = Some(Ok([key |-> key.val, derivation |-> derivation]))
    /\ UNCHANGED <<seed, calls, master_key, iter, key, derivation, pathVars, engineVars, codecVars, pureVars>>

Next ==
    \/ WithSeed
    \/ FetchKeyFirst
    \/ FetchKeyStep
    \/ FetchKeyReturn

Spec == Init /\ [][Next]_vars

(***************************************************************************)
(* Derivations and repeated fetch_key calls on one key chain               *)
(***************************************************************************)
\* the paths of the further calls: the master, a child, a grandchild through
\* a hardened index, and a path that fails
FurtherPaths ==
    {<<"m">>, <<"m", "/", "1">>, <<"m", "/", "1", "H", "/", "5">>,
     <<"m", "/", "h">>}

\* fetch_key returned and the caller makes a further call on the key chain
FetchKeyAgain ==
    /\ fetched.some /\ ~IsPanic(fetched.val)
    /\ calls < MaxCalls
    /\ calls' = calls + 1
    /\ path' \in FurtherPaths
    /\ iter' = None
    /\ key' = None
    /\ derivation' = Derivation_master
    /\ fetched' = None
    /\ UNCHANGED <<seed, master_key, collected, parsed, formatted>>
    /\ UNCHANGED <<engineVars, codecVars, pureVars>>

InitFrame == InitDerive \/ Init

\* a behaviour is derivations from one parent key, or calls on one key chain
NextFrame ==
    \/ ChainIdle /\ DerivePrivateKey
    \/ ChainIdle /\ DerivePublicKey
    \/ ChainIdle /\ Key_DerivePrivateKey
    \/ ChainIdle /\ Key_DerivePublicKey
    \/ ChainIdle /\ ChildPubFromPrivateKey
    \/ EngineIdle /\ WithSeed
    \/ EngineIdle /\ FetchKeyFirst
    \/ EngineIdle /\ FetchKeyStep
    \/ EngineIdle /\ FetchKeyReturn
    \/ EngineIdle /\ FetchKeyAgain

SpecFrame == InitFrame /\ [][NextFrame]_vars

(***************************************************************************)
(* Serialization as a state machine                                        *)
(***************************************************************************)
\* the metadata fetch produces: the master's, or a depth, the parent key and
\* a valid key index
CodecParents == {ExtendedPrivKey(k, IntToBytes(0, 32)) : k \in 1..3}

CodecKeyIndices ==
    {Normal(1), Hardened(HARDENED_KEY_START_INDEX),
     Hardened(HARDENED_KEY_END_INDEX)}

CodecDepths == {1, 255}

CodecChainCodes == {IntToBytes(c, 32) : c \in 0..1}

\* the metadata of the master key, or of a child key
MetadataOf(is_master, depth, parent_key, index) ==
    IF is_master THEN Derivation_master
    ELSE Derivation(depth, Some(parent_key), Some(index))

InitCodec ==
    /\ \E n \in Networks, c \in CodecChainCodes, is_master \in BOOLEAN,
          depth \in CodecDepths, p \in CodecParents, i \in CodecKeyIndices :
           LET d == MetadataOf(is_master, depth, p, i) IN
           \/ \E k \in Scalars :
                  hd_key = [key_type |-> "PrivKey",
                            key |-> HDKey(n, d, ExtendedPrivKey(k, c))]
           \/ \E P \in Points :
                  hd_key = [key_type |-> "PubKey",
                            key |-> HDKey(n, d, ExtendedPubKey(P, c))]
    /\ wire = None
    /\ tampered = FALSE
    /\ decoded = None
    /\ reserialized = None
    /\ EngineIdle
    /\ path = <<>>
    /\ PathIdle
    /\ ChainIdle
    /\ PureIdle

\* Serialize::<Vec<u8>>::serialize(&priv_key)
SerializePrivKey ==
    /\ hd_key.key_type = "PrivKey"
    /\ ~wire.some
    /\ wire' = Some(PrivKey_serialize(hd_key.key))
    /\ UNCHANGED <<hd_key, tampered, decoded, reserialized, engineVars, pathVars, chainVars, pureVars>>

\* Serialize::<Vec<u8>>::serialize(&pub_key)
SerializePubKey ==
    /\ hd_key.key_type = "PubKey"
    /\ ~wire.some
    /\ wire' = Some(PubKey_serialize(hd_key.key))
    /\ UNCHANGED <<hd_key, tampered, decoded, reserialized, engineVars, pathVars, chainVars, pureVars>>

\* the positions of the record a holder of the bytes alters: one in each field
TamperPositions == {1, 5, 6, 13, 14, 46, 78, 79}

\* the holder of the bytes replaces one byte
TamperByte ==
    /\ wire.some /\ ~tampered /\ ~decoded.some
    /\ \E pos \in TamperPositions, b \in {0, 1} :
           /\ wire.val[pos] # b
           /\ wire' = Some([wire.val EXCEPT ![pos] = b])
    /\ tampered' = TRUE
    /\ UNCHANGED <<hd_key, decoded, reserialized, engineVars, pathVars, chainVars, pureVars>>

\* the holder of the bytes drops or adds final bytes
Truncate ==
    /\ wire.some /\ ~tampered /\ ~decoded.some
    /\ \E len \in {0, 77, 81, 83} :
           wire' = Some([j \in 1..len |-> IF j <= 82 THEN wire.val[j] ELSE 0])
    /\ tampered' = TRUE
    /\ UNCHANGED <<hd_key, decoded, reserialized, engineVars, pathVars, chainVars, pureVars>>

\* PrivKey::deserialize(bytes)
DeserializePrivKey ==
    /\ wire.some /\ ~decoded.some
    /\ decoded' = Some([key_type |-> "PrivKey",
                        result |-> PrivKey_deserialize(wire.val)])
    /\ UNCHANGED <<hd_key, wire, tampered, reserialized, engineVars, pathVars, chainVars, pureVars>>

\* PubKey::deserialize(bytes)
DeserializePubKey ==
    /\ wire.some /\ ~decoded.some
    /\ decoded' = Some([key_type |-> "PubKey",
                        result |-> PubKey_deserialize(wire.val)])
    /\ UNCHANGED <<hd_key, wire, tampered, reserialized, engineVars, pathVars, chainVars, pureVars>>

NextCodec ==
    \/ SerializePrivKey
    \/ SerializePubKey
    \/ TamperByte
    \/ Truncate
    \/ DeserializePrivKey
    \/ DeserializePubKey

SpecCodec == InitCodec /\ [][NextCodec]_vars

(***************************************************************************)
(* The keys the library makes, given to serialization                       *)
(***************************************************************************)
\* the metadata of a key derived from the parent key by the key index
ChildMetadata == Derivation(1, Some(parent), Some(key_index))

\* Serialize::<Vec<u8>>::serialize of a PrivKey holding a key that with_seed,
\* fetch_key or derive_private_key returned
SerializeProducedPrivKey ==
    /\ ~reserialized.some
    /\ \E n \in Networks :
           \/ /\ master_key.some /\ IsOk(master_key.val)
              /\ reserialized' =
                     Some([key_type |-> "PrivKey",
                           result |-> PrivKey_serialize_result(
                               HDKey(n, Derivation_master, master_key.val.val))])
           \/ /\ fetched.some /\ IsOk(fetched.val)
              /\ reserialized' =
                     Some([key_type |-> "PrivKey",
                           result |-> PrivKey_serialize_result(
                               HDKey(n, fetched.val.val.derivation,
                                     fetched.val.val.key))])
           \/ /\ child_priv.some /\ IsOk(child_priv.val)
              /\ reserialized' =
                     Some([key_type |-> "PrivKey",
                           result |-> PrivKey_serialize_result(
                               HDKey(n, ChildMetadata,
                                     child_priv.val.val.extended_key))])
    /\ UNCHANGED <<hd_key, wire, tampered, decoded>>
    /\ UNCHANGED <<engineVars, pathVars, chainVars, pureVars>>

\* Serialize::<Vec<u8>>::serialize of a PubKey holding a key that
\* derive_public_key or from_private_key returned
SerializeProducedPubKey ==
    /\ ~reserialized.some
    /\ \E n \in Networks :
           \/ /\ child_pub.some /\ IsOk(child_pub.val)
              /\ reserialized' =
                     Some([key_type |-> "PubKey",
                           result |-> PubKey_serialize_result(
                               HDKey(n, ChildMetadata,
                                     child_pub.val.val.extended_key))])
           \/ /\ child_pub_from_priv.some
              /\ reserialized' =
                     Some([key_type |-> "PubKey",
                           result |-> PubKey_serialize_result(
                               HDKey(n, ChildMetadata,
                                     child_pub_from_priv.val.extended_key))])
    /\ UNCHANGED <<hd_key, wire, tampered, decoded>>
    /\ UNCHANGED <<engineVars, pathVars, chainVars, pureVars>>

\* Serialize::<Vec<u8>>::serialize of the key a deserialize call returned
SerializeDecoded ==
    /\ decoded.some /\ IsOk(decoded.val.result)
    /\ ~reserialized.some
    /\ reserialized' =
           Some([key_type |-> decoded.val.key_type,
                 result |-> IF decoded.val.key_type = "PrivKey"
                            THEN PrivKey_serialize_result(decoded.val.result.val)
                            ELSE PubKey_serialize_result(decoded.val.result.val)])
    /\ UNCHANGED <<hd_key, wire, tampered, decoded>>
    /\ UNCHANGED <<engineVars, pathVars, chainVars, pureVars>>

\* a parent key and a key index, or a seed and one of a few paths, or a
\* MainNet key to serialize
InitKeys ==
    \/ InitDerive /\ rev = "extended_key.rs"
    \/ Init /\ path \in FurtherPaths
    \/ InitCodec /\ hd_key.key.network = "MainNet"

\* a behaviour makes keys by derivation from one parent key, by calls on one
\* key chain or by deserialization, and serializes a key it made
NextKeys ==
    \/ ChainIdle /\ CodecIdle /\ DerivePrivateKey
    \/ ChainIdle /\ CodecIdle /\ DerivePublicKey
    \/ ChainIdle /\ CodecIdle /\ ChildPubFromPrivateKey
    \/ EngineIdle /\ CodecIdle /\ WithSeed
    \/ EngineIdle /\ CodecIdle /\ FetchKeyFirst
    \/ EngineIdle /\ CodecIdle /\ FetchKeyStep
    \/ EngineIdle /\ CodecIdle /\ FetchKeyReturn
    \/ EngineIdle /\ ChainIdle /\ SerializePrivKey
    \/ EngineIdle /\ ChainIdle /\ SerializePubKey
    \/ EngineIdle /\ ChainIdle /\ TamperByte
    \/ EngineIdle /\ ChainIdle /\ Truncate
    \/ EngineIdle /\ ChainIdle /\ DeserializePrivKey
    \/ EngineIdle /\ ChainIdle /\ DeserializePubKey
    \/ CodecIdle /\ SerializeProducedPrivKey
    \/ CodecIdle /\ SerializeProducedPubKey
    \/ EngineIdle /\ ChainIdle /\ SerializeDecoded

SpecKeys == InitKeys /\ [][NextKeys]_vars

(***************************************************************************)
(* Key index constructors on every integer of the argument's type          *)
(***************************************************************************)
IndexRevisions == {"key_index.rs", "extended_key/key_index.rs"}

\* the values of the argument's type: u64 in key_index.rs, u32 in
\* extended_key/key_index.rs
IndexInputs(r) == IF r = "key_index.rs" THEN 0..U64_MAX ELSE 0..U32_MAX

InitIndex ==
    /\ index_rev \in IndexRevisions
    /\ index_input \in IndexInputs(index_rev)
    /\ hardened_index = None
    /\ made_index = None
    /\ VersionIdle
    /\ RandomIdle
    /\ EngineIdle
    /\ path = <<>>
    /\ PathIdle
    /\ ChainIdle
    /\ CodecIdle

\* KeyIndex::hardened_from_normalize_index(index_input)
HardenedFromNormalizeIndex ==
    /\ ~hardened_index.some
    /\ hardened_index' =
           Some(IF index_rev = "key_index.rs"
                THEN hardened_from_normalize_index_u64(index_input)
                ELSE hardened_from_normalize_index(index_input))
    /\ UNCHANGED <<index_rev, index_input, made_index, versionVars, randomVars>>
    /\ UNCHANGED <<engineVars, pathVars, chainVars, codecVars>>

\* KeyIndex::from_index(index_input)
FromIndex ==
    /\ ~made_index.some
    /\ made_index' =
           Some(IF index_rev = "key_index.rs"
                THEN from_index_u64(index_input)
                ELSE from_index(index_input))
    /\ UNCHANGED <<index_rev, index_input, hardened_index, versionVars, randomVars>>
    /\ UNCHANGED <<engineVars, pathVars, chainVars, codecVars>>

NextIndex ==
    \/ HardenedFromNormalizeIndex
    \/ FromIndex

SpecIndex == InitIndex /\ [][NextIndex]_vars

(***************************************************************************)
(* Version bytes: serialize.rs Version, lib.rs Key::version_bytes          *)
(***************************************************************************)
Versions == {Version(n, t) : n \in Networks, t \in KeyTypes}

\* 4-byte values: at each position the bytes the four versions have there,
\* and two others
VersionInputs ==
    {<<b1, b2, b3, b4>> :
        b1 \in {4, 0},
        b2 \in {136, 53, 255},
        b3 \in {173, 178, 131, 135, 0},
        b4 \in {228, 30, 148, 207, 255}}

InitVersion ==
    /\ version \in Versions
    /\ version_encoded = None
    /\ version_reparsed = None
    /\ version_data \in VersionInputs
    /\ version_decoded = None
    /\ IndexIdle
    /\ RandomIdle
    /\ EngineIdle
    /\ path = <<>>
    /\ PathIdle
    /\ ChainIdle
    /\ CodecIdle

\* version.to_bytes()
VersionToBytes ==
    /\ ~version_encoded.some
    /\ version_encoded' = Some([by |-> "Version::to_bytes",
                                bytes |-> Version_to_bytes(version)])
    /\ UNCHANGED <<version, version_reparsed, version_data, version_decoded>>
    /\ UNCHANGED <<indexVars, randomVars, engineVars, pathVars, chainVars, codecVars>>

\* key.version_bytes() of a key of this network and kind
KeyVersionBytes ==
    /\ ~version_encoded.some
    /\ version_encoded' =
           Some([by |-> "Key::version_bytes",
                 bytes |-> Key_version_bytes(version.network, version.key_type)])
    /\ UNCHANGED <<version, version_reparsed, version_data, version_decoded>>
    /\ UNCHANGED <<indexVars, randomVars, engineVars, pathVars, chainVars, codecVars>>

\* Version::from_bytes of the bytes written
VersionReparse ==
    /\ version_encoded.some /\ ~version_reparsed.some
    /\ version_reparsed' = Some(Version_from_bytes(version_encoded.val.bytes))
    /\ UNCHANGED <<version, version_encoded, version_data, version_decoded>>
    /\ UNCHANGED <<indexVars, randomVars, engineVars, pathVars, chainVars, codecVars>>

\* Version::from_bytes(&version_data)
VersionFromBytes ==
    /\ ~version_decoded.some
    /\ version_decoded' = Some(Version_from_bytes(version_data))
    /\ UNCHANGED <<version, version_encoded, version_reparsed, version_data>>
    /\ UNCHANGED <<indexVars, randomVars, engineVars, pathVars, chainVars, codecVars>>

NextVersion ==
    \/ VersionToBytes
    \/ KeyVersionBytes
    \/ VersionReparse
    \/ VersionFromBytes

SpecVersion == InitVersion /\ [][NextVersion]_vars

(***************************************************************************)
(* Random master keys as a state machine                                   *)
(***************************************************************************)
RandomRevisions == {"extended_key.rs", "key.rs", "lib.rs"}

InitRandom ==
    /\ random_rev \in RandomRevisions
    /\ seed_size \in KeySeed
    /\ random_seed = None
    /\ random_key = None
    /\ IndexIdle
    /\ VersionIdle
    /\ EngineIdle
    /\ path = <<>>
    /\ PathIdle
    /\ ChainIdle
    /\ CodecIdle

\* the call with this seed size and these bytes from the generator
Generate(size, rng) ==
    LET n == seed_size_as_usize(size)
        made == IF random_rev = "extended_key.rs"
                THEN random_seed_zeroed(n, rng)
                ELSE random_seed_with_capacity(n, rng)
    IN  /\ random_seed' = Some(made)
        /\ random_key' =
               Some(IF random_rev = "extended_key.rs" THEN with_seed(made)
                    ELSE IF random_rev = "key.rs"
                    THEN master_key_of_seed(made, "InvalidResultKey")
                    ELSE master_key_of_seed(made, "InvalidIndex"))

\* ExtendedPrivKey::random_with_seed_size(seed_size), generate_master_key(n)
RandomWithSeedSize ==
    /\ ~random_seed.some
    /\ \E rng \in RngOutputs : Generate(seed_size, rng)
    /\ UNCHANGED <<random_rev, seed_size>>
    /\ UNCHANGED <<indexVars, versionVars, engineVars, pathVars, chainVars, codecVars>>

\* ExtendedPrivKey::random(): random_with_seed_size(KeySeed::S256)
Random ==
    /\ ~random_seed.some
    /\ random_rev # "lib.rs"
    /\ seed_size' = "S256"
    /\ \E rng \in RngOutputs : Generate("S256", rng)
    /\ UNCHANGED random_rev
    /\ UNCHANGED <<indexVars, versionVars, engineVars, pathVars, chainVars, codecVars>>

NextRandom ==
    \/ RandomWithSeedSize
    \/ Random

SpecRandom == InitRandom /\ [][NextRandom]_vars

(***************************************************************************)
(* Claims                                                                  *)
(***************************************************************************)
\* C1: when the private derivation and the public derivation of a Normal index
\* both succeed, the public key of the privately derived child equals the
\* publicly derived child: public key, chain code and key index.
C1_PublicPrivateConsistency ==
    (/\ key_index.tag = "Normal"
     /\ child_priv.some /\ IsOk(child_priv.val)
     /\ child_pub_from_priv.some
     /\ child_pub.some /\ IsOk(child_pub.val))
    => child_pub_from_priv.val = child_pub.val.val

C1_Witness ==
    /\ rev = "extended_key.rs"
    /\ key_index.tag = "Normal"
    /\ child_priv.some /\ IsOk(child_priv.val)
    /\ child_pub_from_priv.some
    /\ child_pub.some /\ IsOk(child_pub.val)
    /\ child_pub.val.val.extended_key.public_key
           # from_private_key(parent).public_key

\* C2: derive_public_key with a Hardened key index, valid or not, returns the
\* error InvalidKeyIndex and never a child key.
C2_HardenedFromPublic ==
    (child_pub.some /\ key_index.tag = "Hardened")
    => IsErr(child_pub.val, "InvalidKeyIndex")

C2_Witness ==
    /\ child_pub.some
    /\ key_index.tag = "Hardened"
    /\ is_valid(key_index)
    /\ IsErr(child_pub.val, "InvalidKeyIndex")

\* C3: for hardened and normal indices alike, a successful derive_private_key
\* returns the private key (I_L + parent private key) mod the curve order and
\* the chain code I_R, where I is the HMAC-SHA512 keyed by the parent chain
\* code over 0x00 || private key || index (hardened) or the compressed public
\* key || index (normal), the index in the bytes the revision hashes it as.
C3_ChildKeyMaterial ==
    (child_priv.some /\ IsOk(child_priv.val)) =>
        LET index_be == IF rev = "key.rs" THEN IntToBytes(key_index.i, 32)
                        ELSE IntToBytes(key_index.i, 4)
            data == IF key_index.tag = "Hardened"
                    THEN <<0>> \o IntToBytes(parent.private_key, 32) \o index_be
                    ELSE PublicKey_serialize(
                             PublicKey_from_secret_key(parent.private_key))
                         \o index_be
            I == hmac_sha512(parent.chain_code, data)
            I_L == BytesToInt(Slice(I, 0, 32), 32)
            I_R == Slice(I, 32, 64)
            child == child_priv.val.val.extended_key
        IN  /\ child.private_key = (I_L + parent.private_key) % CurveOrder
            /\ child.chain_code = I_R

\* the serialized bytes are as serialize made them and are deserialized as
\* the type they were serialized from
RoundTrip ==
    /\ decoded.some
    /\ ~tampered
    /\ decoded.val.key_type = hd_key.key_type

\* C4 as stated: for a PrivKey or PubKey with master or non-master metadata,
\* deserializing the serialized bytes yields a value equal to the original.
C4_RoundTripEqual ==
    RoundTrip =>
        /\ IsOk(decoded.val.result)
        /\ decoded.val.result.val = hd_key.key

\* C4: deserializing the serialized bytes of a PrivKey or PubKey succeeds and
\* yields the original network, depth, chain code and key with no parent key;
\* for master metadata (no parent key, no key index) the result equals the
\* original.
C4_RoundTrip ==
    RoundTrip =>
        /\ IsOk(decoded.val.result)
        /\ decoded.val.result.val.network = hd_key.key.network
        /\ decoded.val.result.val.extended_key = hd_key.key.extended_key
        /\ decoded.val.result.val.derivation.depth = hd_key.key.derivation.depth
        /\ decoded.val.result.val.derivation.parent_key = None
        /\ hd_key.key.derivation = Derivation_master
               => decoded.val.result.val = hd_key.key

C4_Witness ==
    /\ RoundTrip
    /\ hd_key.key_type = "PrivKey"
    /\ hd_key.key.derivation.parent_key.some
    /\ hd_key.key.extended_key.private_key > 1
    /\ IsOk(decoded.val.result)
    /\ decoded.val.result.val.extended_key = hd_key.key.extended_key

C4_WitnessMaster ==
    /\ RoundTrip
    /\ hd_key.key_type = "PubKey"
    /\ hd_key.key.derivation = Derivation_master
    /\ IsOk(decoded.val.result)
    /\ decoded.val.result.val = hd_key.key

\* the first item of the iterator is not Ok(Root): no item, a Child step or a
\* path error
FirstStepNotRoot(segments) ==
    \/ segments = <<>>
    \/ /\ ~IsPanic(Iter_next(segments[1]))
       /\ Iter_next(segments[1]) # Ok(Root)

RECURSIVE KeyAfter(_, _, _)
\* the key the first n child steps of the segments derive from the master key
KeyAfter(master, segments, n) ==
    IF n = 0 THEN master
    ELSE derive_private_key(KeyAfter(master, segments, n - 1),
                            Iter_next(segments[n + 1]).val.key_index
                           ).val.extended_key

\* C8: a successful fetch of a path with k child steps returns depth k, the
\* index of the last step as key index and the key derived by the first k - 1
\* steps as parent key; for the path m it returns the master key with depth 0,
\* no parent key and no key index.
C8_FetchMetadata ==
    (fetched.some /\ IsOk(fetched.val)) =>
        LET segments == ChainPath_iter(path)
            k == Len(segments) - 1
            master == master_key.val.val
            meta == fetched.val.val.derivation
        IN  /\ meta.depth = k
            /\ k = 0 =>
                   /\ fetched.val.val.key = master
                   /\ meta.parent_key = None
                   /\ meta.key_index = None
            /\ k > 0 =>
                   /\ meta.key_index =
                          Some(Iter_next(segments[k + 1]).val.key_index)
                   /\ meta.parent_key = Some(KeyAfter(master, segments, k - 1))

C8_Witness ==
    /\ fetched.some
    /\ IsOk(fetched.val)
    /\ fetched.val.val.derivation.depth = 2
    /\ fetched.val.val.derivation.parent_key.val # master_key.val.val
    /\ fetched.val.val.derivation.parent_key.val # fetched.val.val.key

C8_WitnessMaster ==
    /\ fetched.some
    /\ IsOk(fetched.val)
    /\ path = MASTER_SYMBOL
    /\ fetched.val.val.derivation = Derivation_master

\* the claim's grammar, read off the text character by character: `m`, then
\* zero or more times a separator, one or more digits and at most one marker
MatchesGrammar(s) ==
    /\ Len(s) >= 1
    /\ s[1] = "m"
    /\ \A j \in 2..Len(s) :
           \/ /\ s[j] = "/"
              /\ j < Len(s)
              /\ s[j + 1] \in DigitChars
           \/ /\ s[j] \in DigitChars
              /\ s[j - 1] \in DigitChars \cup {"/"}
           \/ /\ s[j] \in {"H", "'"}
              /\ s[j - 1] \in DigitChars
              /\ (j = Len(s) \/ s[j + 1] = "/")

\* C9: a parse, by from_string or by collecting the iterator, succeeds only on
\* a text of the grammar m(/digits[H|'])*, and the steps of a successful
\* collect are Root followed by Child steps only.
C9_ParseOnlyGrammar ==
    /\ (collected.some /\ IsOk(collected.val)) =>
           /\ MatchesGrammar(path)
           /\ collected.val.val # <<>>
           /\ collected.val.val[1] = Root
           /\ \A j \in 2..Len(collected.val.val) :
                  collected.val.val[j].tag = "Child"
    /\ (parsed.some /\ IsOk(parsed.val.result)) => MatchesGrammar(path)

\* the number a text of digits denotes, and the segment after the last
\* separator of a text
SegmentNumber(digits) == DecimalValue(digits, Len(digits))

LastSegment(s) ==
    LET pieces == Split(s, 1, <<>>) IN pieces[Len(pieces)]

\* C10: a segment of a decimal number N below 2^32 and a hardening marker,
\* H or ', parses to the Hardened key index 2^31 + (N mod 2^31), by
\* from_string and by the iterator alike.
C10_HardenedMarker ==
    LET segment == LastSegment(path)
        N == SegmentNumber(Front(segment))
        expected == Hardened(HARDENED_KEY_START_INDEX
                                 + (N % HARDENED_KEY_START_INDEX))
    IN  (/\ MatchesGrammar(path)
         /\ segment # <<>>
         /\ segment[Len(segment)] \in HARDENED_SYMBOLS
         /\ N <= HARDENED_KEY_END_INDEX)
        => /\ (collected.some /\ IsOk(collected.val)) =>
                  collected.val.val[Len(collected.val.val)] = Child(expected)
           /\ (parsed.some /\ IsOk(parsed.val.result)) =>
                  parsed.val.result.val[Len(parsed.val.result.val)] = expected

\* C11: for every path text of the grammar that writes its hardening markers
\* as H, formatting the parsed path returns the text: to_string(from_string(s))
\* is s.
C11_PathRoundTrip ==
    (/\ MatchesGrammar(path)
     /\ \A j \in 1..Len(path) : path[j] # "'"
     /\ formatted.some)
    => formatted.val = path

\* C12: hardened_from_normalize_index(N) returns Hardened(2^31 + (N mod 2^31))
\* for every N below 2^32 and the index-out-of-range error for every N from
\* 2^32 on.
C12_HardenedFromNormalizeIndex ==
    hardened_index.some =>
        IF index_input <= HARDENED_KEY_END_INDEX
        THEN hardened_index.val =
                 Ok(Hardened(HARDENED_KEY_START_INDEX
                             + (index_input % HARDENED_KEY_START_INDEX)))
        ELSE hardened_index.val = Err("IndexOutRange")

\* a raw hardened index was passed and came back as it was
C12_Witness ==
    /\ hardened_index.some
    /\ index_input > HARDENED_KEY_START_INDEX
    /\ index_input <= HARDENED_KEY_END_INDEX
    /\ hardened_index.val = Ok(Hardened(index_input))

C12_WitnessNormalized ==
    /\ hardened_index.some
    /\ index_input > 0
    /\ index_input < HARDENED_KEY_START_INDEX
    /\ IsOk(hardened_index.val)

C12_WitnessOutOfRange ==
    /\ hardened_index.some
    /\ index_input > HARDENED_KEY_END_INDEX
    /\ IsErr(hardened_index.val, "IndexOutRange")

\* is_valid() of the revision that made the key index
IndexIsValid(index) ==
    IF index_rev = "key_index.rs" THEN is_valid_u64(index) ELSE is_valid(index)

\* C13: from_index(i) returns Normal(i) for i below 2^31, Hardened(i) for i
\* from 2^31 up to 2^32 - 1 and an error for i from 2^32 on, and every key
\* index it returns satisfies is_valid().
C13_FromIndex ==
    made_index.some =>
        /\ IF index_input < HARDENED_KEY_START_INDEX
           THEN made_index.val = Ok(Normal(index_input))
           ELSE IF index_input <= HARDENED_KEY_END_INDEX
           THEN made_index.val = Ok(Hardened(index_input))
           ELSE IsErr(made_index.val, "IndexOutRange")
        /\ IsOk(made_index.val) => IndexIsValid(made_index.val.val)

\* the first hardened index was passed
C13_Witness ==
    /\ made_index.some
    /\ index_input = HARDENED_KEY_START_INDEX
    /\ IsOk(made_index.val)
    /\ IndexIsValid(made_index.val.val)

C13_WitnessOutOfRange ==
    /\ made_index.some
    /\ index_input = HARDENED_KEY_END_INDEX + 1
    /\ IsErr(made_index.val, "IndexOutRange")

\* the serialized bytes as written: neither altered nor cut since
Written == wire.some /\ ~tampered

\* C14: the serialized bytes are exactly 82 bytes: version at [0..4], depth at
\* [4], parent fingerprint at [5..9] (zeros when there is no parent), the raw
\* index big-endian at [9..13] (zeros when there is no index), the chain code
\* at [13..45], the key material at [45..78] (0x00 and the 32-byte scalar, or
\* the 33-byte public key), the checksum at [78..82]; and the decoder reads
\* each field of its result from the same offsets.
C14_EncodedLayout ==
    Written =>
        LET buf == wire.val
            self == hd_key.key
            d == self.derivation
        IN  /\ Len(buf) = 82
            /\ Slice(buf, 0, 4)
                   = Version_to_bytes(Version(self.network, hd_key.key_type))
            /\ buf[5] = d.depth
            /\ Slice(buf, 5, 9)
                   = IF d.parent_key.some
                     THEN Slice(ripemd160(sha256(PublicKey_serialize(
                              PublicKey_from_secret_key(
                                  d.parent_key.val.private_key)))), 0, 4)
                     ELSE Zeros(4)
            /\ Slice(buf, 9, 13)
                   = IF d.key_index.some
                     THEN IntToBytes(d.key_index.val.i, 4)
                     ELSE Zeros(4)
            /\ Slice(buf, 13, 45) = self.extended_key.chain_code
            /\ Slice(buf, 45, 78)
                   = IF hd_key.key_type = "PrivKey"
                     THEN <<0>> \o IntToBytes(self.extended_key.private_key, 32)
                     ELSE PublicKey_serialize(self.extended_key.public_key)
            /\ Slice(buf, 78, 82) = Slice(sha256(sha256(Slice(buf, 0, 78))), 0, 4)

C14_DecodedLayout ==
    (decoded.some /\ IsOk(decoded.val.result)) =>
        LET buf == wire.val
            got == decoded.val.result.val
            d == got.derivation
        IN  /\ \E t \in KeyTypes :
                   Version_to_bytes(Version(got.network, t)) = Slice(buf, 0, 4)
            /\ d.depth = buf[5]
            /\ d.key_index.some <=> Slice(buf, 5, 9) # Zeros(4)
            /\ d.key_index.some
                   => IntToBytes(d.key_index.val.i, 4) = Slice(buf, 9, 13)
            /\ got.extended_key.chain_code = Slice(buf, 13, 45)
            /\ IF decoded.val.key_type = "PrivKey"
               THEN IntToBytes(got.extended_key.private_key, 32)
                        = Slice(buf, 46, 78)
               ELSE PublicKey_serialize(got.extended_key.public_key)
                        = Slice(buf, 45, 78)

C14_Layout == C14_EncodedLayout /\ C14_DecodedLayout

\* a child key was serialized and the bytes were decoded
C14_Witness ==
    /\ Written
    /\ hd_key.key.derivation.parent_key.some
    /\ hd_key.key.derivation.key_index.some
    /\ Slice(wire.val, 5, 9) # Zeros(4)
    /\ Slice(wire.val, 9, 13) # Zeros(4)
    /\ decoded.some /\ IsOk(decoded.val.result)

\* a master key was serialized: no parent and no index
C14_WitnessMaster ==
    /\ Written
    /\ ~hd_key.key.derivation.parent_key.some
    /\ ~hd_key.key.derivation.key_index.some
    /\ decoded.some /\ IsOk(decoded.val.result)

\* the byte string the specification gives a version
VersionBytesOf(v) ==
    IF v.network = "MainNet"
    THEN IF v.key_type = "PrivKey" THEN <<4, 136, 173, 228>>
         ELSE <<4, 136, 178, 30>>
    ELSE IF v.key_type = "PrivKey" THEN <<4, 53, 131, 148>>
         ELSE <<4, 53, 135, 207>>

\* C15: the version mapping is a bijection between the four (network, key
\* type) pairs and 0488ADE4, 0488B21E, 04358394, 043587CF: to_bytes writes the
\* string of the pair, from_bytes of it gives the pair back, and from_bytes
\* returns UnknownVersion for every other 4-byte value.
C15_VersionBijection ==
    /\ version_encoded.some => version_encoded.val.bytes = VersionBytesOf(version)
    /\ version_reparsed.some => version_reparsed.val = Ok(version)
    /\ version_decoded.some =>
           IF \E v \in Versions : VersionBytesOf(v) = version_data
           THEN /\ IsOk(version_decoded.val)
                /\ VersionBytesOf(version_decoded.val.val) = version_data
           ELSE version_decoded.val = Err("UnknownVersion")

\* the test-net public version was written and read back
C15_Witness ==
    /\ version = Version("TestNet", "PubKey")
    /\ version_encoded.some
    /\ version_encoded.val.bytes = <<4, 53, 135, 207>>
    /\ version_reparsed.some /\ IsOk(version_reparsed.val)

\* four bytes that differ from a version in their last byte only
C15_WitnessUnknown ==
    /\ version_data = <<4, 136, 173, 255>>
    /\ version_decoded.some
    /\ version_decoded.val = Err("UnknownVersion")

C15_WitnessKnown ==
    /\ version_data = <<4, 136, 178, 30>>
    /\ version_decoded.some
    /\ version_decoded.val = Ok(Version("MainNet", "PubKey"))

\* C16: deserializing bytes of any length and content, fewer than 82 bytes
\* included, never panics: the result is a key or an error.
C16_DeserializeNeverPanics ==
    decoded.some => ~IsPanic(decoded.val.result)

\* C17: parsing a path text of any content, with empty segments, a segment
\* that is only a hardening marker or a multi-byte final character, never
\* panics: each parser returns a path or an error.
C17_ParseNeverPanics ==
    /\ collected.some => ~IsPanic(collected.val)
    /\ parsed.some => ~IsPanic(parsed.val.result)

\* C18: random master-key generation feeds the master-key HMAC a seed of the
\* requested size, filled from the random generator: the seed is never the
\* empty byte string.
C18_RandomSeedSize ==
    random_seed.some =>
        /\ Len(random_seed.val) = seed_size_as_usize(seed_size)
        /\ random_seed.val # <<>>

\* what fetch_key returned: the key or the error
FetchedKey(result) == IF IsOk(result) THEN Ok(result.val.key) ELSE result

\* C19: derivation never changes its input: no step of derive_private_key,
\* derive_public_key or fetch_key changes the parent key or the key chain's
\* master key, and a fetch_key(p) that returns after any earlier calls on the
\* key chain returns what a key chain newly made from the same master key
\* returns for p.
C19_InputsUnchanged ==
    [][/\ parent' = parent
       /\ master_key.some => master_key' = master_key
       /\ fetched'.some =>
              FetchedKey(fetched'.val) = fetch_key(with_seed(seed).val, path')]_vars

\* a call after two earlier calls returned a grandchild key
C19_Witness ==
    /\ calls = MaxCalls
    /\ path = <<"m", "/", "1", "H", "/", "5">>
    /\ fetched.some /\ IsOk(fetched.val)
    /\ fetched.val.val.key # master_key.val.val

\* a derivation returned and the parent is the key it was called on
C19_WitnessDerive ==
    /\ child_priv.some /\ IsOk(child_priv.val)
    /\ child_pub.some /\ IsOk(child_pub.val)
    /\ parent.private_key # 1

\* I_L of the private derivation of extended_key.rs: the first half of the HMAC
DerivedLeft ==
    LET signature == IF key_index.tag = "Hardened"
                     THEN sign_hardended_key(parent, key_index.i)
                     ELSE sign_normal_key(parent, key_index.i)
    IN  BytesToInt(Slice(signature, 0, 32), 32)

LeftInvalid == DerivedLeft = 0 \/ DerivedLeft >= CurveOrder

SumIsZero == (DerivedLeft + parent.private_key) % CurveOrder = 0

\* C20: derive_private_key returns the error InvalidResultKey, and does not
\* panic, when I_L is no valid scalar (zero, or the curve order or more) and
\* when I_L plus the parent private key is zero modulo the curve order.
C20_InvalidResultKey ==
    /\ (/\ rev = "extended_key.rs"
        /\ child_priv.some
        /\ is_valid(key_index)
        /\ LeftInvalid \/ SumIsZero)
       => child_priv.val = Err("InvalidResultKey")
    /\ child_priv.some => ~IsPanic(child_priv.val)

\* C21: in every derivation (private hardened, private normal, public normal)
\* the index appended to the HMAC input is the 4-byte big-endian encoding of
\* the raw index, so the HMAC input is 37 bytes long.
C21_HmacInput ==
    /\ priv_hashed.some =>
           /\ Len(priv_hashed.val) = 37
           /\ Slice(priv_hashed.val, 33, 37) = IntToBytes(key_index.i, 4)
    /\ pub_hashed.some =>
           /\ Len(pub_hashed.val) = 37
           /\ Slice(pub_hashed.val, 33, 37) = IntToBytes(key_index.i, 4)

\* no derivation of extended_key.rs gave the HMAC anything else
C21_HmacInputExtendedKey == rev = "extended_key.rs" => C21_HmacInput

\* C22: derive_private_key and derive_public_key called with a key index that
\* fails is_valid() return InvalidKeyIndex, and nothing was given to the HMAC.
C22_InvalidKeyIndexFirst ==
    LET valid == IF rev = "key.rs" THEN is_valid_u64(key_index)
                 ELSE is_valid(key_index)
    IN  ~valid =>
            /\ child_priv.some =>
                   child_priv.val = Err("InvalidKeyIndex") /\ ~priv_hashed.some
            /\ child_pub.some =>
                   child_pub.val = Err("InvalidKeyIndex") /\ ~pub_hashed.some

\* both derivations returned for a Normal index of 2^31 or more, on a parent
\* whose HMAC for that index has no valid left half
C22_Witness ==
    /\ rev = "extended_key.rs"
    /\ key_index.tag = "Normal"
    /\ key_index.i >= HARDENED_KEY_START_INDEX
    /\ ~IsOk(SecretKey_from_slice(
               Slice(sign_normal_key(parent, key_index.i), 0, 32)))
    /\ child_priv.some
    /\ child_pub.some

\* a Hardened index below 2^31
C22_WitnessHardened ==
    /\ key_index.tag = "Hardened"
    /\ key_index.i < HARDENED_KEY_START_INDEX
    /\ child_priv.some
    /\ child_pub.some

\* key.rs: a Hardened index of 2^32
C22_WitnessKey ==
    /\ rev = "key.rs"
    /\ key_index = Hardened(HARDENED_KEY_END_INDEX + 1)
    /\ child_priv.some
    /\ child_pub.some

\* the record is 82 bytes and its last four bytes are not its checksum
ChecksumMismatch ==
    /\ wire.some
    /\ Len(wire.val) = 82
    /\ Slice(sha256(sha256(Slice(wire.val, 0, 78))), 0, 4)
           # Slice(wire.val, 78, 82)

\* C23: deserialization checks the checksum before any other field: for an
\* 82-byte record whose checksum does not match, the result is MisChecksum,
\* also when the version bytes are unknown or the key material is no valid
\* scalar or point.
C23_ChecksumFirst ==
    (decoded.some /\ ChecksumMismatch)
    => decoded.val.result = Err("MisChecksum")

\* a record with unknown version bytes and a wrong checksum was decoded as a
\* private key
C23_Witness ==
    /\ decoded.some
    /\ decoded.val.key_type = "PrivKey"
    /\ ChecksumMismatch
    /\ ~IsOk(Version_from_bytes(Slice(wire.val, 0, 4)))

\* a record whose key material is no point and whose checksum is wrong was
\* decoded as a public key
C23_WitnessPoint ==
    /\ decoded.some
    /\ decoded.val.key_type = "PubKey"
    /\ ChecksumMismatch
    /\ ~IsOk(PublicKey_from_slice(Slice(wire.val, 45, 78)))

\* a segment of digits with at most one hardening marker, its number a u32
IndexSegment(piece) ==
    LET digits == IF piece # <<>> /\ piece[Len(piece)] \in HARDENED_SYMBOLS
                  THEN Front(piece) ELSE piece
    IN  /\ digits # <<>>
        /\ \A j \in 1..Len(digits) : digits[j] \in DigitChars
        /\ SegmentNumber(digits) <= U32_MAX

\* a path text that starts with m, has an empty segment, and whose other
\* segments are index segments
HasEmptySegment(s) ==
    LET pieces == Split(s, 1, <<>>) IN
    /\ Len(pieces) >= 2
    /\ pieces[1] = MASTER_SYMBOL
    /\ \E j \in 2..Len(pieces) : pieces[j] = <<>>
    /\ \A j \in 2..Len(pieces) : pieces[j] = <<>> \/ IndexSegment(pieces[j])

\* the empty segment lies between two separators
ConsecutiveSeparators(s) ==
    \E j \in 1..(Len(s) - 1) : s[j] = SEPARATOR /\ s[j + 1] = SEPARATOR

\* C24: a path text with an empty segment, between two separators or after a
\* final separator, fails to parse with the blank-segment error: Blank from the
\* iterator, the reason "Subpath can't be blank" from from_string.
C24_BlankSegment ==
    HasEmptySegment(path) =>
        /\ collected.some => collected.val = Err("Blank")
        /\ parsed.some =>
               /\ ~IsOk(parsed.val.result)
               /\ ~IsPanic(parsed.val.result) =>
                      parsed.val.result.val.reason = "Subpath can't be blank"

\* the part of C24 that the iterator meets: an empty segment between two
\* separators
C24_BlankBetweenSeparators ==
    (HasEmptySegment(path) /\ ConsecutiveSeparators(path) /\ collected.some)
        => collected.val = Err("Blank")

\* the digits of the last segment of a text, its hardening marker set aside
LastSegmentDigits(s) ==
    LET last == LastSegment(s) IN
    IF last # <<>> /\ last[Len(last)] \in HARDENED_SYMBOLS
    THEN Front(last) ELSE last

\* a path text m/.../digits[marker] whose last segment denotes a number that
\* no u32 holds, after index segments only
LastSegmentBeyondU32(s) ==
    LET pieces == Split(s, 1, <<>>)
        digits == LastSegmentDigits(s)
    IN  /\ Len(pieces) >= 2
        /\ pieces[1] = MASTER_SYMBOL
        /\ \A j \in 2..(Len(pieces) - 1) : IndexSegment(pieces[j])
        /\ digits # <<>>
        /\ \A j \in 1..Len(digits) : digits[j] \in DigitChars
        /\ SegmentNumber(digits) > U32_MAX

\* C25: a segment whose digits denote an integer of 2^32 or more fails to
\* parse with KeyIndexOutOfRange, not with Invalid.
C25_KeyIndexOutOfRange ==
    (LastSegmentBeyondU32(path) /\ collected.some)
        => collected.val = Err("KeyIndexOutOfRange")

\* the same segment in from_string of chain_path.rs, where the number is a
\* u64: the reason is "Key index out of range"
C25_FromStringOutOfRange ==
    (/\ LastSegmentBeyondU32(path)
     /\ SegmentNumber(LastSegmentDigits(path)) <= U64_MAX
     /\ parsed.some)
        => /\ ~IsOk(parsed.val.result)
           /\ parsed.val.result.val.reason = "Key index out of range"

\* the position of the last separator of a text, 0 when it has none
LastSeparator(s) ==
    LET at == {j \in 1..Len(s) : s[j] = SEPARATOR} IN
    IF at = {} THEN 0 ELSE CHOOSE j \in at : \A k \in at : k <= j

\* the text before the last separator
BeforeLastSeparator(s) == SubSeq(s, 1, LastSeparator(s) - 1)

\* the call returned what derive_private_key(i) makes of fetch_key(p), where
\* the path is p, a separator and an index segment of index i; an error when
\* fetch_key(p) is one
ComposedOfPrefix ==
    LET p == BeforeLastSeparator(path)
        i == Iter_next(LastSegment(path)).val.key_index
        before == fetch_key(master_key.val.val, p)
    IN  IF IsOk(before)
        THEN LET child == derive_private_key(before.val, i) IN
             IF IsOk(child)
             THEN /\ IsOk(fetched.val)
                  /\ fetched.val.val.key = child.val.extended_key
             ELSE fetched.val = child
        ELSE ~IsOk(fetched.val)

\* C26: fetch_key of the path m returns the master key, and fetch_key of a
\* path p followed by a separator and a segment of index i returns
\* derive_private_key(i) of the key fetch_key(p) returns, and an error
\* whenever fetch_key(p) is an error.
C26_FetchCompositional ==
    fetched.some =>
        /\ path = MASTER_SYMBOL =>
               /\ IsOk(fetched.val)
               /\ fetched.val.val.key = master_key.val.val
        /\ (LastSeparator(path) > 0 /\ IndexSegment(LastSegment(path)))
               => ComposedOfPrefix

\* C26 for the paths p that do not end in a separator
C26_FetchCompositionalOfSegments ==
    fetched.some =>
        /\ path = MASTER_SYMBOL =>
               /\ IsOk(fetched.val)
               /\ fetched.val.val.key = master_key.val.val
        /\ (/\ LastSeparator(path) > 0
            /\ IndexSegment(LastSegment(path))
            /\ LastSegment(BeforeLastSeparator(path)) # <<>>)
               => ComposedOfPrefix

\* the key type the version bytes of the record denote, if they are known
WireKeyType ==
    LET wire_version == Version_from_bytes(Slice(wire.val, 0, 4)) IN
    IF Len(wire.val) >= 4 /\ IsOk(wire_version) THEN Some(wire_version.val.key_type)
    ELSE None

\* C27: PrivKey::deserialize returns an error for every record whose version
\* bytes denote a public key, and PubKey::deserialize returns an error for
\* every record whose version bytes denote a private key.
C27_KeyTypeHonoured ==
    (/\ decoded.some
     /\ Len(wire.val) = 82
     /\ WireKeyType.some
     /\ WireKeyType.val # decoded.val.key_type)
        => decoded.val.result.tag = "Err"

\* the direction of C27 that the point parser happens to meet: a private-key
\* record given to PubKey::deserialize
C27_PrivateRecordAsPubKey ==
    (/\ decoded.some
     /\ Len(wire.val) = 82
     /\ WireKeyType = Some("PrivKey")
     /\ decoded.val.key_type = "PubKey")
        => decoded.val.result.tag = "Err"

\* a record of 82 bytes was decoded to a key
DecodedKey ==
    /\ decoded.some
    /\ Len(wire.val) = 82
    /\ IsOk(decoded.val.result)

\* C28: decode_derivation reports no key index exactly for the records whose
\* depth byte is 0, and for every record of depth 1 or more the key index of
\* the big-endian value in bytes 9..13.
C28_KeyIndexByDepth ==
    DecodedKey =>
        LET derivation_decoded == decoded.val.result.val.derivation IN
        /\ wire.val[5] = 0 <=> derivation_decoded.key_index = None
        /\ wire.val[5] >= 1 =>
               derivation_decoded.key_index =
                   Some(from_index(BytesToInt(Slice(wire.val, 9, 13), 4)).val)

\* what the code tests: no key index exactly for the records whose parent
\* fingerprint, bytes 5..9, is zero, and the key index of bytes 9..13 for
\* every other record
C28_KeyIndexByFingerprint ==
    DecodedKey =>
        LET derivation_decoded == decoded.val.result.val.derivation IN
        IF Slice(wire.val, 5, 9) = Zeros(4)
        THEN derivation_decoded.key_index = None
        ELSE derivation_decoded.key_index =
                 Some(from_index(BytesToInt(Slice(wire.val, 9, 13), 4)).val)

\* the path text ends in an index segment and its steps were collected
CollectedIndexSegment ==
    /\ collected.some
    /\ IsOk(collected.val)
    /\ IndexSegment(LastSegment(path))

\* the last segment of the path text carries a hardening marker
LastSegmentMarked ==
    LET last == LastSegment(path) IN last[Len(last)] \in HARDENED_SYMBOLS

\* the step collected for the last segment of the path text
LastStep == collected.val.val[Len(collected.val.val)]

\* C29: the step iterator yields a Normal index for a segment without marker
\* only when its number is below 2^31; for a number N from 2^31 to 2^32 - 1
\* the segments N and N with a marker yield Child(Hardened(N)), which is also
\* what N - 2^31 with a marker yields.
C29_HardenedWithoutMarker ==
    CollectedIndexSegment =>
        LET N == SegmentNumber(LastSegmentDigits(path)) IN
        /\ (LastStep.tag = "Child" /\ LastStep.key_index.tag = "Normal")
               => (~LastSegmentMarked /\ N < HARDENED_KEY_START_INDEX)
        /\ N >= HARDENED_KEY_START_INDEX => LastStep = Child(Hardened(N))
        /\ (LastSegmentMarked /\ N < HARDENED_KEY_START_INDEX)
               => LastStep = Child(Hardened(N + HARDENED_KEY_START_INDEX))

\* a segment without marker whose number is 2^31 or more was collected to a
\* Hardened index
C29_Witness ==
    /\ CollectedIndexSegment
    /\ ~LastSegmentMarked
    /\ SegmentNumber(LastSegmentDigits(path)) >= HARDENED_KEY_START_INDEX
    /\ LastStep.key_index.tag = "Hardened"

\* the same number with a marker
C29_WitnessMarked ==
    /\ CollectedIndexSegment
    /\ LastSegmentMarked
    /\ SegmentNumber(LastSegmentDigits(path)) >= HARDENED_KEY_START_INDEX
    /\ LastStep = Child(Hardened(SegmentNumber(LastSegmentDigits(path))))

\* the number less 2^31 with a marker
C29_WitnessNormalized ==
    /\ CollectedIndexSegment
    /\ LastSegmentMarked
    /\ SegmentNumber(LastSegmentDigits(path)) = 1
    /\ LastStep = Child(Hardened(HARDENED_KEY_START_INDEX + 1))

\* C30: every extended key that with_seed, fetch_key, derive_private_key,
\* derive_public_key, from_private_key or a deserialize call returns has a
\* chain code of 32 bytes, and serializing such a key returns 82 bytes: the
\* assertion on the 78 bytes before the checksum does not fail.
C30_ChainCodeLength ==
    /\ (master_key.some /\ IsOk(master_key.val))
           => Len(master_key.val.val.chain_code) = 32
    /\ key.some => Len(key.val.chain_code) = 32
    /\ (fetched.some /\ IsOk(fetched.val))
           => Len(fetched.val.val.key.chain_code) = 32
    /\ (rev = "extended_key.rs" /\ child_priv.some /\ IsOk(child_priv.val))
           => Len(child_priv.val.val.extended_key.chain_code) = 32
    /\ (child_pub.some /\ IsOk(child_pub.val))
           => Len(child_pub.val.val.extended_key.chain_code) = 32
    /\ child_pub_from_priv.some
           => Len(child_pub_from_priv.val.extended_key.chain_code) = 32
    /\ (decoded.some /\ IsOk(decoded.val.result))
           => Len(decoded.val.result.val.extended_key.chain_code) = 32
    /\ reserialized.some =>
           /\ IsOk(reserialized.val.result)
           /\ Len(reserialized.val.result.val) = 82

\* a key returned by deserialize was serialized
C30_Witness ==
    /\ decoded.some
    /\ IsOk(decoded.val.result)
    /\ reserialized.some
    /\ IsOk(reserialized.val.result)

\* a key returned by derive_private_key through a hardened index was serialized
C30_WitnessDerived ==
    /\ child_priv.some
    /\ IsOk(child_priv.val)
    /\ key_index.tag = "Hardened"
    /\ reserialized.some
    /\ reserialized.val.key_type = "PrivKey"

\* a key returned by fetch_key after two derivations was serialized
C30_WitnessFetched ==
    /\ fetched.some
    /\ IsOk(fetched.val)
    /\ fetched.val.val.derivation.depth = 2
    /\ reserialized.some

\* a key returned by derive_public_key was serialized
C30_WitnessPublic ==
    /\ child_pub.some
    /\ IsOk(child_pub.val)
    /\ ~child_pub_from_priv.some
    /\ reserialized.some
    /\ reserialized.val.key_type = "PubKey"

====
